---------------------------- MODULE Spec2Model ----------------------------
(***************************************************************************)
(* A model of the d2l utility functions (src/unnamed/part_000): the        *)
(* Accumulator, grad_clipping, truncate_pad, build_array_nmt, tokenize,    *)
(* tokenize_nmt,                                                           *)
(* the greedy decoder predict_seq2seq, download and extract,               *)
(* ProgressBoard.draw, sequence_mask and MaskedSoftmaxCELoss,              *)
(* train_seq2seq, save_hyperparameters and accuracy, and of                *)
(* Classifier.accuracy (src/chapter_builders-guide/lazy-init.ipynb),       *)
(* of MyInit (src/chapter_builders-guide/init-param.ipynb) and of the      *)
(* control-flow example f (src/chapter_preliminaries/autograd.ipynb).      *)
(*                                                                         *)
(* Every component has its own specification (SpecAcc, SpecClip, ...).     *)
(* The variables of the components a specification does not run keep the   *)
(* idle values its Init gives them.                                        *)
(*                                                                         *)
(* Python lists are sequences.  List indices are 0-based in the source and *)
(* 1-based here.  A character is a one-character string, a text is a       *)
(* sequence of characters, a token is a text.                              *)
(***************************************************************************)
EXTENDS Integers, Sequences, FiniteSets, TLC

VARIABLES
    \* ---- Accumulator
    n,          \* the n given to Accumulator.__init__
    data,       \* Accumulator.data
    adds,       \* history: the argument tuples of the add calls since
                \* construction or since the latest reset
    fullArgs,   \* history: every add call so far passed exactly n values
    last,       \* history: the latest call, "init", "add" or "reset"
    calls,      \* history: number of add and reset calls so far
    \* ---- predict_seq2seq
    pc,                     \* where the running function stands
    src_sentence,           \* argument: the source sentence, a text
    num_steps,              \* argument (also of truncate_pad, build_array_nmt)
    save_attention_weights, \* argument
    src_tokens,             \* local: the indices passed to the encoder
    enc_valid_len,          \* local
    dec_X,                  \* local: the next decoder input
    dec_state,              \* local: the next decoder state
    output_seq,             \* local
    attention_weight_seq,   \* local
    translation,            \* the text returned
    encLog,                 \* history: the arguments of every encoder call
    decLog,                 \* history: every decoder call, arguments and results
    \* ---- grad_clipping
    grads,      \* argument: the caller's list of gradients
    theta,      \* argument
    new_grad,   \* local, and the list returned
    grads0,     \* history: the gradients the caller passed
    \* ---- truncate_pad
    line,           \* argument
    padding_token,  \* argument
    padded,         \* the list returned
    \* ---- build_array_nmt and tokenize
    lines,      \* argument
    array,      \* build_array_nmt: the rows of the array returned
    valid_len,  \* build_array_nmt: the valid lengths returned
    token,      \* tokenize: argument, the mode flag
    ret,        \* tokenize: the list of token lists returned
    \* ---- download, extract, download_extract
    func,        \* which of the three functions is called
    name,        \* history: the url or data set name the caller passed
    url,         \* download: argument, reassigned by the DATA_HUB lookup
    sha1_hash,   \* download: argument, reassigned by the DATA_HUB lookup
    folder,      \* argument
    filename,    \* extract: argument
    files,       \* the local file system: path -> content
    files0,      \* history: the file system when the function was called
    filesBefore, \* history: the file system when the extraction began
    fetchLog,    \* history: the outcome of every requests.get
    fname,       \* download: local
    dl_ret,      \* the path download returned
    ext,         \* extract, download_extract: local
    opened,      \* history: the archives opened, and by what
    ext_ret,     \* the path download_extract returned
    \* ---- ProgressBoard
    raw_points, \* ProgressBoard.raw_points: label -> list of raw points
    pb_data,    \* ProgressBoard.data: label -> list of plotted points
    display,    \* ProgressBoard.display
    shown,      \* the series drawn by the latest display of the figure
    drawLog,    \* history: the arguments of every draw call
    \* ---- sequence_mask and MaskedSoftmaxCELoss
    called,         \* which of the two is called
    mask_X,         \* sequence_mask: argument X
    mask_valid_len, \* argument valid_len (of the loss: self.valid_len)
    mask_value,     \* sequence_mask: argument value
    mask_ret,       \* sequence_mask: the rows of the tensor returned
    loss_label,     \* MaskedSoftmaxCELoss.call: argument label
    loss_pred,      \* MaskedSoftmaxCELoss.call: argument pred
    loss_terms,     \* local: unweighted_loss * weights
    loss_ret,       \* the weighted_loss returned, one mean per example
    \* ---- train_seq2seq
    num_epochs,  \* argument
    data_iter,   \* argument: the batches of one pass over the data
    epoch,       \* the epoch running, or about to be started
    bidx,        \* the number of batches taken in this epoch
    timer,       \* local: the Timer of this epoch, <<"Timer", epoch>>
    metric,      \* local: the data of the Accumulator of this epoch
    dec_input,   \* local
    loss,        \* local l: one masked mean per example
    gradients,   \* local
    net_version, \* the number of optimizer steps the parameters have seen
    trainLog,    \* history: the steps taken, in order
    animLog,     \* history: the points given to the animator
    report,      \* what the final print read: metric[0], metric[1], timer
    \* ---- save_hyperparameters
    hp_args,    \* the calling constructor's arguments: name -> value passed
    hp_locals,  \* the local variables it has assigned before the call
    ignore,     \* argument
    hparams,    \* self.hparams
    attrs,      \* the attributes set on self by setattr
    \* ---- Classifier.accuracy and d2l.accuracy
    acc_func,   \* which of the two is called
    acc_Y_hat,  \* argument Y_hat (y_hat)
    acc_Y,      \* argument Y (y)
    averaged,   \* Classifier.accuracy: argument
    acc_ret,    \* what is returned
    \* ---- MyInit.__call__
    init_shape,     \* the argument shape
    init_dtype,     \* the argument dtype
    init_data,      \* the local data
    factor,         \* the local factor
    init_ret,       \* the tensor returned
    \* ---- tokenize_nmt
    text,           \* the argument text
    num_examples,   \* the argument num_examples: {} for None, {k} for k
    loop_i,         \* the loop variable i
    nmt_source,     \* the list source
    nmt_target,     \* the list target
    examined,       \* history: the indices i of the lines split on tabs
    \* ---- f(a) of the control-flow example
    fn_a,           \* the argument a
    fn_b,           \* the local b
    fn_c            \* the local c, returned

accVars == <<n, data, adds, fullArgs, last, calls>>
predVars == <<src_sentence, save_attention_weights, src_tokens,
              enc_valid_len, dec_X, dec_state, output_seq,
              attention_weight_seq, translation, encLog, decLog>>

clipVars == <<grads, theta, new_grad, grads0>>

padVars == <<line, padding_token, padded>>
nmtVars == <<array, valid_len>>
tokVars == <<token, ret>>
dataVars == <<func, name, url, sha1_hash, folder, filename, files, files0,
              filesBefore, fetchLog, fname, dl_ret, ext, opened, ext_ret>>

boardVars == <<raw_points, pb_data, display, shown, drawLog>>

lossVars == <<called, mask_X, mask_valid_len, mask_value, mask_ret,
              loss_label, loss_pred, loss_terms, loss_ret>>

trainVars == <<num_epochs, data_iter, epoch, bidx, timer, metric, dec_input,
               loss, gradients, net_version, trainLog, animLog, report>>

hpVars == <<hp_args, hp_locals, ignore, hparams, attrs>>

cmpVars == <<acc_func, acc_Y_hat, acc_Y, averaged, acc_ret>>

myInitVars == <<init_shape, init_dtype, init_data, factor, init_ret>>

tokNmtVars == <<text, num_examples, loop_i, nmt_source, nmt_target,
                examined>>

autogradVars == <<fn_a, fn_b, fn_c>>

\* the components of lines 90-172 and 477-831
laterVars == <<dataVars, boardVars, lossVars, trainVars, hpVars, cmpVars,
               myInitVars, tokNmtVars, autogradVars>>

vars == <<accVars, pc, num_steps, predVars, clipVars, padVars, lines,
          nmtVars, tokVars, laterVars>>

\* what the actions of one component leave alone
notAcc == <<pc, num_steps, predVars, clipVars, padVars, lines, nmtVars,
           tokVars, laterVars>>
notPred == <<accVars, clipVars, padVars, lines, nmtVars, tokVars, laterVars>>
notClip == <<accVars, num_steps, predVars, padVars, lines, nmtVars, tokVars,
            laterVars>>
notPad == <<accVars, predVars, clipVars, lines, nmtVars, tokVars, laterVars>>
notNmt == <<accVars, predVars, clipVars, padVars, tokVars, laterVars>>
notTok == <<accVars, num_steps, predVars, clipVars, padVars, nmtVars,
           laterVars>>
earlierVars == <<accVars, num_steps, predVars, clipVars, padVars, lines,
                nmtVars, tokVars>>
notData == <<earlierVars, boardVars, lossVars, trainVars, hpVars, cmpVars,
             myInitVars, tokNmtVars, autogradVars>>

notBoard == <<earlierVars, pc, dataVars, lossVars, trainVars, hpVars,
              cmpVars, myInitVars, tokNmtVars, autogradVars>>

notLoss == <<earlierVars, dataVars, boardVars, trainVars, hpVars, cmpVars,
             myInitVars, tokNmtVars, autogradVars>>

notTrain == <<earlierVars, dataVars, boardVars, lossVars, hpVars, cmpVars,
              myInitVars, tokNmtVars, autogradVars>>

notHp == <<earlierVars, dataVars, boardVars, lossVars, trainVars, cmpVars,
           myInitVars, tokNmtVars, autogradVars>>

notCmp == <<earlierVars, dataVars, boardVars, lossVars, trainVars, hpVars,
            myInitVars, tokNmtVars, autogradVars>>

notMyInit == <<earlierVars, dataVars, boardVars, lossVars, trainVars, hpVars,
               cmpVars, tokNmtVars, autogradVars>>

notTokNmt == <<earlierVars, dataVars, boardVars, lossVars, trainVars, hpVars,
               cmpVars, myInitVars, autogradVars>>

notAutograd == <<earlierVars, dataVars, boardVars, lossVars, trainVars,
                 hpVars, cmpVars, myInitVars, tokNmtVars>>

(***************************************************************************)
(* Helpers on sequences.                                                   *)
(***************************************************************************)
Min(a, b) == IF a < b THEN a ELSE b

\* [x] * k of Python: k copies of x (none when k <= 0)
Repeat(x, k) == [i \in 1..k |-> x]

\* all sequences over S of length lo..hi
SeqsOf(S, lo, hi) == UNION {[1..k -> S] : k \in lo..hi}

(***************************************************************************)
(* Accumulator (part_000, 462-474).                                        *)
(* The values added are small integers: float(b) keeps the value of an     *)
(* integer b, and the float sum of small integers is exact.                *)
(***************************************************************************)
MaxN == 2
MaxCalls == 3
AddVals == {-1, 2}

\* float(b) of an integer b: the float of the same value
Float(b) == b

\* Accumulator.__init__: [0.0] * n
AccNew(k) == Repeat(Float(0), k)

\* a plausible slip: the slot is overwritten instead of accumulated
AccAddOverwrite(d, args) ==
    [i \in 1..Min(Len(d), Len(args)) |-> Float(args[i])]

\* Accumulator.add: [a + float(b) for a, b in zip(self.data, args)];
\* zip stops at the shorter of self.data and args
AccAdd(d, args) ==
    [i \in 1..Min(Len(d), Len(args)) |-> d[i] + Float(args[i])]

\* Accumulator.reset: [0.0] * len(self.data)
AccReset(d) == Repeat(Float(0), Len(d))

AccInit ==
    /\ n \in 1..MaxN
    /\ data = AccNew(n)
    /\ adds = <<>>
    /\ fullArgs = TRUE
    /\ last = "init"
    /\ calls = 0

AccIdle ==
    /\ n = 0
    /\ data = <<>>
    /\ adds = <<>>
    /\ fullArgs = TRUE
    /\ last = "idle"
    /\ calls = 0

\* metric.add(*args), with fewer, exactly or more than n values
Add(args) ==
    /\ calls < MaxCalls
    /\ data' = AccAdd(data, args)
    /\ adds' = Append(adds, args)
    /\ fullArgs' = (fullArgs /\ Len(args) = n)
    /\ last' = "add"
    /\ calls' = calls + 1
    /\ UNCHANGED <<n, notAcc>>

\* metric.reset()
Reset ==
    /\ calls < MaxCalls
    /\ data' = AccReset(data)
    /\ adds' = <<>>
    /\ last' = "reset"
    /\ calls' = calls + 1
    /\ UNCHANGED <<n, fullArgs, notAcc>>

AccNext ==
    \/ \E args \in SeqsOf(AddVals, 0, n + 1) : Add(args)
    \/ Reset

(***************************************************************************)
(* Vocab (d2l.Vocab, not part of src/): a list idx_to_token of distinct     *)
(* tokens holding <unk> and the reserved tokens, and its inverse            *)
(* token_to_idx; the index of a token that is not listed is that of <unk>.  *)
(* Indices are 0-based as in the source.                                    *)
(***************************************************************************)
PAD == <<"<pad>">>
BOS == <<"<bos>">>
EOS == <<"<eos>">>
UNK == <<"<unk>">>

src_idx_to_token == <<BOS, EOS, PAD, UNK, <<"a">> >>
tgt_idx_to_token == <<BOS, EOS, PAD, UNK, <<"x">> >>

\* vocab[token]: token_to_idx.get(token, unk)
VocabGet(idx_to_token, tok) ==
    IF \E i \in DOMAIN idx_to_token : idx_to_token[i] = tok
    THEN (CHOOSE i \in DOMAIN idx_to_token : idx_to_token[i] = tok) - 1
    ELSE (CHOOSE i \in DOMAIN idx_to_token : idx_to_token[i] = UNK) - 1

\* vocab[tokens] of a list of tokens
VocabGetAll(idx_to_token, toks) ==
    [i \in DOMAIN toks |-> VocabGet(idx_to_token, toks[i])]

\* vocab.to_tokens(indices)
ToTokens(idx_to_token, idxs) == [i \in DOMAIN idxs |-> idx_to_token[idxs[i] + 1]]

(***************************************************************************)
(* Text helpers: str.lower, str.split(sep), sep.join.                      *)
(***************************************************************************)
LowerChar(c) == IF c = "A" THEN "a" ELSE c
Lower(s) == [i \in DOMAIN s |-> LowerChar(s[i])]

\* s.split(sep): the pieces between the occurrences of sep, empty pieces kept
RECURSIVE SplitOn(_, _)
SplitOn(s, sep) ==
    IF \A i \in DOMAIN s : s[i] # sep
    THEN <<s>>
    ELSE LET i == CHOOSE j \in DOMAIN s :
                      s[j] = sep /\ \A k \in 1..(j - 1) : s[k] # sep
         IN  <<SubSeq(s, 1, i - 1)>> \o SplitOn(SubSeq(s, i + 1, Len(s)), sep)

\* sep.join(toks)
RECURSIVE Join(_, _)
Join(sep, toks) ==
    IF toks = <<>> THEN <<>>
    ELSE IF Len(toks) = 1 THEN toks[1]
    ELSE toks[1] \o <<sep>> \o Join(sep, Tail(toks))

(***************************************************************************)
(* truncate_pad (part_000, 721-725).                                       *)
(***************************************************************************)
\* a plausible slip: the slice keeps one element too many
TruncatePadOffByOne(l, S, pad) ==
    IF Len(l) > S
    THEN SubSeq(l, 1, S + 1)
    ELSE l \o Repeat(pad, S - Len(l))

\* truncate_pad(line, num_steps, padding_token)
truncate_pad(l, S, pad) ==
    IF Len(l) > S
    THEN SubSeq(l, 1, S)                  \* line[:num_steps]
    ELSE l \o Repeat(pad, S - Len(l))     \* line + [padding_token] * (...)

(***************************************************************************)
(* predict_seq2seq (part_000, 834-862).                                    *)
(* The network is opaque.  The encoder's output is the term of its         *)
(* arguments; a decoder state is the term of what produced it, the         *)
(* init_state arguments followed by the decoder inputs consumed since; the *)
(* arg-max token of a decoder step is any index of the target vocabulary.  *)
(***************************************************************************)
MaxSent == 3
MaxSteps == 3
SentChars == {"A", " ", "<pad>"}

TgtIdx == 0..(Len(tgt_idx_to_token) - 1)

\* net.encoder(enc_X, enc_valid_len, training=False)
Encoder(enc_X, vlen) == [X |-> enc_X, valid_len |-> vlen]

\* net.decoder.init_state(enc_outputs, enc_valid_len)
InitState(enc_outputs, vlen) ==
    [enc_outputs |-> enc_outputs, valid_len |-> vlen, fed |-> <<>>]

\* the state net.decoder(dec_X, dec_state) returns
DecoderState(X, state) == [state EXCEPT !.fed = Append(@, X)]

\* net.decoder.attention_weights after a decoder call
AttentionWeights(new_state) == new_state.fed

\* a plausible slip: the decoder is fed <bos> at every step
NextDecXStale(tok) == VocabGet(tgt_idx_to_token, BOS)

\* dec_X = tf.argmax(Y, axis=2): the next decoder input
NextDecX(tok) == tok

\* a plausible slip: the weights are saved whatever the flag says
AppendWeightsAlways(seq, save, w) == Append(seq, w)

\* lines 855-856: the weights of this step are saved when asked for
AppendWeights(seq, save, w) == IF save THEN Append(seq, w) ELSE seq

\* a plausible slip: the loop test is missing, every step is made
BreaksNever(pred) == FALSE

\* if pred == tgt_vocab['<eos>']: break
Breaks(pred) == pred = VocabGet(tgt_idx_to_token, EOS)

\* a plausible slip: a sentence without characters is not encoded
EncoderCallsSkipEmpty(sentence, X, vlen) ==
    IF sentence = <<>> THEN <<>> ELSE <<[X |-> X, valid_len |-> vlen]>>

\* the encoder calls of lines 837-843: one, whatever the sentence
EncoderCalls(sentence, X, vlen) == <<[X |-> X, valid_len |-> vlen]>>

PredInit ==
    /\ pc = "start"
    /\ src_sentence \in SeqsOf(SentChars, 0, MaxSent)
    /\ num_steps \in 0..MaxSteps
    /\ save_attention_weights \in BOOLEAN
    /\ src_tokens = <<>>
    /\ enc_valid_len = 0
    /\ dec_X = 0
    /\ dec_state = [enc_outputs |-> <<>>, valid_len |-> 0, fed |-> <<>>]
    /\ output_seq = <<>>
    /\ attention_weight_seq = <<>>
    /\ translation = <<>>
    /\ encLog = <<>>
    /\ decLog = <<>>

PredIdle ==
    /\ src_sentence = <<>>
    /\ save_attention_weights = FALSE
    /\ src_tokens = <<>>
    /\ enc_valid_len = 0
    /\ dec_X = 0
    /\ dec_state = <<>>
    /\ output_seq = <<>>
    /\ attention_weight_seq = <<>>
    /\ translation = <<>>
    /\ encLog = <<>>
    /\ decLog = <<>>

\* lines 837-847: the source tokens, the one encoder call, the first
\* decoder input and state
Encode ==
    /\ pc = "start"
    /\ LET toks == VocabGetAll(src_idx_to_token,
                               SplitOn(Lower(src_sentence), " "))
                   \o <<VocabGet(src_idx_to_token, EOS)>>
           vlen == Len(toks)
           enc_X == truncate_pad(toks, num_steps,
                                 VocabGet(src_idx_to_token, PAD))
           enc_outputs == Encoder(enc_X, vlen)
       IN  /\ src_tokens' = enc_X
           /\ enc_valid_len' = vlen
           /\ encLog' = encLog \o EncoderCalls(src_sentence, enc_X, vlen)
           /\ dec_state' = InitState(enc_outputs, vlen)
    /\ dec_X' = VocabGet(tgt_idx_to_token, BOS)
    /\ output_seq' = <<>>
    /\ attention_weight_seq' = <<>>
    /\ pc' = "loop"
    /\ UNCHANGED <<src_sentence, num_steps, save_attention_weights,
                   translation, decLog, notPred>>

\* lines 848-861: one turn of the loop, the decoder's arg-max being pred
DecodeStep(pred) ==
    /\ pc = "loop"
    /\ Len(decLog) < num_steps
    /\ LET new_state == DecoderState(dec_X, dec_state)
       IN  /\ decLog' = Append(decLog, [X |-> dec_X, state |-> dec_state,
                                        pred |-> pred, new_state |-> new_state])
           /\ dec_state' = new_state
           /\ attention_weight_seq' =
                  AppendWeights(attention_weight_seq, save_attention_weights,
                                AttentionWeights(new_state))
    /\ dec_X' = NextDecX(pred)
    /\ IF Breaks(pred)
       THEN pc' = "break" /\ UNCHANGED output_seq
       ELSE pc' = "loop" /\ output_seq' = Append(output_seq, pred)
    /\ UNCHANGED <<src_sentence, num_steps, save_attention_weights,
                   src_tokens, enc_valid_len, translation, encLog, notPred>>

\* line 862: after the break or after num_steps turns
Return ==
    /\ \/ pc = "break"
       \/ pc = "loop" /\ Len(decLog) >= num_steps
    /\ translation' = Join(" ", ToTokens(tgt_idx_to_token, output_seq))
    /\ pc' = "done"
    /\ UNCHANGED <<src_sentence, num_steps, save_attention_weights,
                   src_tokens, enc_valid_len, dec_X, dec_state, output_seq,
                   attention_weight_seq, encLog, decLog, notPred>>

PredNext ==
    \/ Encode
    \/ \E pred \in TgtIdx : DecodeStep(pred)
    \/ Return

(***************************************************************************)
(* grad_clipping (part_000, 633-650).                                      *)
(* A gradient is a dense tensor, [kind |-> "dense", v |-> its elements],   *)
(* or a tf.IndexedSlices, [kind |-> "slices", dim, indices, values]: the   *)
(* rows values[k] of a tensor of dim rows, at the rows indices[k].         *)
(* Arithmetic is exact: an element is a pair <<p, q>> that stands for the  *)
(* real number p / sqrt(q), q >= 1, so that g * theta / norm is            *)
(* <<g * theta, norm ^ 2>> without rounding.  The gradients passed hold    *)
(* integers, <<g, 1>>.  The source computes in float32; its rounding is    *)
(* not modelled.                                                           *)
(***************************************************************************)
MaxG == 1
MaxTheta == 2
TensorLens == {1, 2}

GradVals == (-MaxG)..MaxG

\* the real number g as an element
Num(g) == <<g, 1>>

\* two elements that stand for the same real number
ValEq(a, b) ==
    /\ a[1] * a[1] * b[2] = b[1] * b[1] * a[2]
    /\ (a[1] > 0) = (b[1] > 0)
    /\ (a[1] < 0) = (b[1] < 0)

RECURSIVE SumSeq(_)
SumSeq(s) == IF s = <<>> THEN 0 ELSE s[1] + SumSeq(Tail(s))

\* tf.convert_to_tensor(grad) of an IndexedSlices: the rows of equal index
\* are added up, the rows no index names are 0
ConvertToTensor(g) ==
    [kind |-> "dense",
     v |-> [j \in 1..g.dim |->
              Num(SumSeq([k \in DOMAIN g.indices |->
                            IF g.indices[k] = j THEN g.values[k][1] ELSE 0]))]]

\* lines 636-641: the new list, IndexedSlices converted
CopyGrads(gs) ==
    [i \in DOMAIN gs |->
        IF gs[i].kind = "slices" THEN ConvertToTensor(gs[i]) ELSE gs[i]]

\* tf.reduce_sum(grad ** 2) of a dense tensor of integers
ReduceSumSq(g) == SumSeq([j \in DOMAIN g.v |-> g.v[j][1] * g.v[j][1]])

\* line 642, squared: the sum over all tensors of reduce_sum(grad ** 2)
NormSq(gs) == SumSeq([i \in DOMAIN gs |-> ReduceSumSq(gs[i])])

\* tf.greater(norm, theta), norm = sqrt(normsq) >= 0
Greater(normsq, th) == th < 0 \/ normsq > th * th

\* a plausible slip: the gradient is normalised, theta forgotten
ScaleNoTheta(g, th, normsq) ==
    [j \in DOMAIN g |-> <<g[j][1], g[j][2] * normsq>>]

\* line 647: grad * theta / norm, elementwise
Scale(g, th, normsq) ==
    [j \in DOMAIN g |-> <<g[j][1] * th, g[j][2] * normsq>>]

\* lines 642-650: the list returned
ClipResult(ng, th) ==
    LET normsq == NormSq(ng)
    IN  [i \in DOMAIN ng |->
           IF Greater(normsq, th)
           THEN [ng[i] EXCEPT !.v = Scale(@, th, normsq)]
           ELSE ng[i]]

\* a plausible slip: new_grad is the caller's list itself, not a new list
CallerListAliased(gs, ng) == ng

\* the caller's list when grad_clipping has run: lines 636-649 write to
\* new_grad only, a list of its own
CallerList(gs, ng) == gs

GradElems == {Num(g) : g \in GradVals}
DenseGrads == {[kind |-> "dense", v |-> s] :
                  s \in UNION {[1..k -> GradElems] : k \in TensorLens}}
SliceGrads == {[kind |-> "slices", dim |-> 2, indices |-> ix, values |-> vs] :
                  ix \in [1..2 -> 1..2], vs \in [1..2 -> GradElems]}

ClipInit ==
    /\ pc = "call"
    /\ grads \in SeqsOf(DenseGrads \cup SliceGrads, 1, 2)
    /\ theta \in 0..MaxTheta
    /\ new_grad = <<>>
    /\ grads0 = grads

ClipIdle ==
    /\ grads = <<>>
    /\ theta = 0
    /\ new_grad = <<>>
    /\ grads0 = <<>>

\* lines 635-641
ClipCopy ==
    /\ pc = "call"
    /\ new_grad' = CopyGrads(grads)
    /\ pc' = "copied"
    /\ UNCHANGED <<grads, theta, grads0, notClip>>

\* lines 642-650
ClipScale ==
    /\ pc = "copied"
    /\ new_grad' = ClipResult(new_grad, theta)
    /\ grads' = CallerList(grads, new_grad')
    /\ pc' = "done"
    /\ UNCHANGED <<theta, grads0, notClip>>

ClipNext == ClipCopy \/ ClipScale

(***************************************************************************)
(* truncate_pad called on its own (part_000, 721-725).                     *)
(***************************************************************************)
MaxLine == 3
PadIdx == 0..2

PadInit ==
    /\ pc = "call"
    /\ line \in SeqsOf(PadIdx, 0, MaxLine)
    /\ num_steps \in 0..MaxSteps
    /\ padding_token \in {1, 7}
    /\ padded = <<>>

PadIdle ==
    /\ line = <<>>
    /\ padding_token = 0
    /\ padded = <<>>

TruncatePad ==
    /\ pc = "call"
    /\ padded' = truncate_pad(line, num_steps, padding_token)
    /\ pc' = "done"
    /\ UNCHANGED <<line, num_steps, padding_token, notPad>>

PadNext == TruncatePad

(***************************************************************************)
(* build_array_nmt (part_000, 729-737), with the source vocabulary.        *)
(* lines holds at least one line.  tf.constant takes rows of one length    *)
(* only and raises a ValueError otherwise.                                 *)
(***************************************************************************)
NmtToks == {<<"a">>, <<"q">>, PAD, EOS}
LineCounts == {1, 2}

\* a plausible slip: <eos> is not appended
AppendEosNot(l, eos) == l

\* line 732: l + [vocab['<eos>']]
AppendEos(l, eos) == l \o <<eos>>

\* a plausible slip: the rows are truncated but not padded
BuildRowsNoPad(ls, S, pad) ==
    [r \in DOMAIN ls |-> SubSeq(ls[r], 1, Min(Len(ls[r]), S))]

\* line 733-734: [truncate_pad(l, num_steps, vocab['<pad>']) for l in lines]
BuildRows(ls, S, pad) == [r \in DOMAIN ls |-> truncate_pad(ls[r], S, pad)]

\* tf.constant(rows) has a value: the rows have one length
Rectangular(rows) == \A r1, r2 \in DOMAIN rows : Len(rows[r1]) = Len(rows[r2])

\* line 735-736: tf.reduce_sum(tf.cast(array != vocab['<pad>'], tf.int32), 1)
ValidLen(rows, pad) ==
    [r \in DOMAIN rows |->
        Cardinality({j \in DOMAIN rows[r] : rows[r][j] # pad})]

NmtInit ==
    /\ pc = "call"
    /\ lines \in UNION {[1..k -> SeqsOf(NmtToks, 0, MaxLine)] : k \in LineCounts}
    /\ num_steps \in 0..MaxSteps
    /\ array = <<>>
    /\ valid_len = <<>>

NmtIdle ==
    /\ array = <<>>
    /\ valid_len = <<>>

BuildArrayNmt ==
    /\ pc = "call"
    /\ LET pad == VocabGet(src_idx_to_token, PAD)
           idx == [r \in DOMAIN lines |->
                     VocabGetAll(src_idx_to_token, lines[r])]          \* 731
           eosd == [r \in DOMAIN idx |->
                      AppendEos(idx[r],
                                VocabGet(src_idx_to_token, EOS))]      \* 732
           rows == BuildRows(eosd, num_steps, pad)
       IN  IF Rectangular(rows)
           THEN /\ array' = rows
                /\ valid_len' = ValidLen(rows, pad)
                /\ pc' = "done"
           ELSE /\ pc' = "raised"
                /\ UNCHANGED <<array, valid_len>>
    /\ UNCHANGED <<lines, num_steps, notNmt>>

NmtNext == BuildArrayNmt

(***************************************************************************)
(* tokenize (part_000, 582-585).                                           *)
(***************************************************************************)
MaxText == 3
TokChars == {"a", "b", " ", "\t"}
Whitespace == {" ", "\t", "\n", "\r"}
TokenFlags == {"word", "char", "line"}

\* the lists of at most two lines of at most MaxText characters in all
TextsOfLen(k) == [1..k -> TokChars]
TextsUpTo(k) == UNION {TextsOfLen(j) : j \in 0..k}
TokLines ==
    {<<>>} \cup {<<t>> : t \in TextsUpTo(MaxText)}
           \cup UNION {{<<t1, t2>> : t1 \in TextsOfLen(k),
                                     t2 \in TextsUpTo(MaxText - k)} :
                          k \in 0..MaxText}

\* a plausible slip: line.split(' '), which keeps empty pieces and tabs
SplitSpaceOnly(s) == SplitOn(s, " ")

\* line.split(): the maximal runs of characters that are not whitespace
RECURSIVE Split(_)
Split(s) ==
    IF \A i \in DOMAIN s : s[i] \in Whitespace
    THEN <<>>
    ELSE LET b == CHOOSE j \in DOMAIN s :
                      s[j] \notin Whitespace
                      /\ \A k \in 1..(j - 1) : s[k] \in Whitespace
             e == CHOOSE j \in b..Len(s) :
                      /\ \A k \in b..j : s[k] \notin Whitespace
                      /\ (j = Len(s) \/ s[j + 1] \in Whitespace)
         IN  <<SubSeq(s, b, e)>> \o Split(SubSeq(s, e + 1, Len(s)))

\* list(line): one token per character
ListOf(s) == [i \in DOMAIN s |-> <<s[i]>>]

\* the assertion of line 584 left out: every flag is let through
TokenKnownAny(t) == TRUE

\* assert token in ('word', 'char')
TokenKnown(t) == t \in {"word", "char"}

TokInit ==
    /\ pc = "call"
    /\ lines \in TokLines
    /\ token \in TokenFlags
    /\ ret = <<>>

TokIdle ==
    /\ token = ""
    /\ ret = <<>>

Tokenize ==
    /\ pc = "call"
    /\ IF TokenKnown(token)                                       \* 584
       THEN /\ ret' = [i \in DOMAIN lines |->
                         IF token = "word" THEN Split(lines[i])
                                           ELSE ListOf(lines[i])]  \* 585
            /\ pc' = "done"
       ELSE /\ pc' = "raised"
            /\ UNCHANGED ret
    /\ UNCHANGED <<lines, token, notTok>>

TokNext == Tokenize

(***************************************************************************)
(* download, extract and download_extract (lines 510-546 and 567-579).     *)
(* A path or url is a sequence of symbols: "/" and "." are the characters, *)
(* every other symbol is a run of characters without "/" and ".".  The     *)
(* content of a file is a string.  None is NoneVal where a path is         *)
(* expected and "None" where a checksum is.                                *)
(***************************************************************************)
NoneVal == <<"<None>">>

\* the last index of symbol c in p, 0 when there is none (str.rfind)
LastIndexOf(p, c) ==
    IF \E i \in DOMAIN p : p[i] = c
    THEN CHOOSE i \in DOMAIN p :
             p[i] = c /\ \A j \in (i + 1)..Len(p) : p[j] # c
    ELSE 0

\* url.startswith('http')
StartsWithHttp(u) == u # <<>> /\ u[1] \in {"http:", "https:"}

\* url.split('/')[-1]
LastSegment(u) == SubSeq(u, LastIndexOf(u, "/") + 1, Len(u))

\* os.path.join(a, b)
PathJoin(a, b) ==
    IF b # <<>> /\ b[1] = "/" THEN b
    ELSE IF a = <<>> \/ a[Len(a)] = "/" THEN a \o b
    ELSE a \o <<"/">> \o b

\* os.path.dirname(p)
Dirname(p) ==
    LET i == LastIndexOf(p, "/")
    IN  IF i = 0 THEN <<>>
        ELSE IF i = 1 THEN <<"/">>
        ELSE SubSeq(p, 1, i - 1)

\* os.path.splitext(p): the extension starts at the last dot of the last
\* path component, leading dots of that component not counted
Splitext(p) ==
    LET sepIndex == LastIndexOf(p, "/")
        dotIndex == LastIndexOf(p, ".")
    IN  IF /\ dotIndex > sepIndex
           /\ \E k \in (sepIndex + 1)..(dotIndex - 1) : p[k] # "."
        THEN <<SubSeq(p, 1, dotIndex - 1), SubSeq(p, dotIndex, Len(p))>>
        ELSE <<p, <<>>>>

\* the contents a file can have: a zip archive, a tar archive (compressed
\* or not), anything else
Contents == {"zip1", "tar1", "text"}

\* hashlib.sha1 of a whole file, read in blocks of 1048576 bytes
Sha1(c) ==
    CASE c = "zip1" -> "94646ad1"
      [] c = "tar1" -> "5de26c8f"
      [] OTHER -> "01ada507"

\* the truth value of a checksum: None and '' are false
Truthy(h) == h \notin {"None", ""}

\* d2l.DATA_HUB after line 682
DATA_URL == <<"http:", "/", "/", "d2l-data", "/">>
DATA_HUB ==
    [k \in {<<"fra-eng">>} |->
        <<DATA_URL \o <<"fra-eng", ".", "zip">>, "94646ad1">>]

\* the cache test without the comparison of the checksums
CacheHitAnyFile(fs, f, h) == f \in DOMAIN fs /\ Truthy(h)

\* the file exists, a checksum is given and it is the file's SHA-1
CacheHit(fs, f, h) ==
    /\ f \in DOMAIN fs /\ Truthy(h)                             \* 518
    /\ Sha1(fs[f]) = h                                           \* 526

\* open(f, 'wb') and write: fs with content c at path f
Put(fs, f, c) == [x \in DOMAIN fs \cup {f} |-> IF x = f THEN c ELSE fs[x]]

\* the members of an archive, as paths inside it
Members(c) ==
    CASE c = "zip1" -> {<<"fra-eng", "/", "fra", ".", "txt">>}
      [] c = "tar1" -> {<<"m">>, <<"d", "/", "k">>}
      [] OTHER -> {}

\* the opener can read the file: it exists and is of the opener's kind
Readable(opener, fs, f) ==
    /\ f \in DOMAIN fs
    /\ \/ opener = "ZipFile" /\ fs[f] = "zip1"
       \/ opener = "tarfile" /\ fs[f] = "tar1"

\* fp.extractall(target)
ExtractAll(fs, c, target) ==
    [x \in DOMAIN fs \cup {PathJoin(target, mb) : mb \in Members(c)} |->
        IF \E mb \in Members(c) : x = PathJoin(target, mb)
        THEN "text" ELSE fs[x]]

\* the assertion of line 539 left out
ExtSupportedAny(e) == TRUE

\* ext in ('.zip', '.tar', '.gz')
ExtSupported(e) == e \in {<<".", "zip">>, <<".", "tar">>, <<".", "gz">>}

\* extract, lines 540-543
Opener(e) == IF e = <<".", "zip">> THEN "ZipFile" ELSE "tarfile"

\* download_extract, lines 572-577
OpenerDx(e) ==
    IF e = <<".", "zip">> THEN "ZipFile"
    ELSE IF e \in {<<".", "tar">>, <<".", "gz">>} THEN "tarfile"
    ELSE "assert"

DefaultFolder == <<".", ".", "/", "data">>

\* the urls and data set names passed to download and download_extract
UrlNames ==
    { <<"http:", "/", "/", "h", "/", "a", ".", "zip">>,
      <<"https:", "/", "/", "h", "/", "g", ".", "tar", ".", "gz">>,
      <<"http:", "/", "/", "h", "/", "b", ".", "txt">>,
      <<"fra-eng">>,
      <<"missing">> }

\* the paths passed to extract
FileNames ==
    { <<"f", ".", "zip">>,
      <<"d", "/", "f", ".", "tar">>,
      <<"d", "/", "f", ".", "tar", ".", "gz">>,
      <<"d", "/", "f", ".", "txt">>,
      <<"d", ".", "zip", "/", "f">>,
      <<"d", "/", ".", "zip">>,
      <<"d", "/", "f", ".", "ZIP">>,
      <<"d", "/", "f">> }

HashArgs == {"None", ""} \cup {Sha1(c) : c \in Contents}

\* the file systems before the call: one unrelated file, and the file at
\* path f missing or with any content
OtherFile == <<".", ".", "/", "data", "/", "other">>
FileSystems(f) ==
    LET base == [x \in {OtherFile} |-> "text"]
    IN  {base} \cup {Put(base, f, c) : c \in Contents}

\* the path download writes to, for the file systems of Init
TargetOf(nm, fld) ==
    PathJoin(fld, LastSegment(IF nm \in DOMAIN DATA_HUB
                              THEN DATA_HUB[nm][1] ELSE nm))

\* the folder download is given
DlFolder == IF func = "download" THEN folder ELSE DefaultFolder

DataInit ==
    /\ pc = "call"
    /\ func \in {"download", "extract", "download_extract"}
    /\ name \in IF func = "extract" THEN {<<>>} ELSE UrlNames
    /\ url = name
    /\ sha1_hash \in IF func = "download" THEN HashArgs ELSE {"None"}
    /\ folder \in CASE func = "download" -> {DefaultFolder, <<"tmp">>}
                    [] func = "extract" -> {NoneVal, <<"out">>}
                    [] OTHER -> {NoneVal, <<"fra-eng">>}
    /\ filename \in IF func = "extract" THEN FileNames ELSE {<<>>}
    /\ files0 \in FileSystems(IF func = "extract" THEN filename
                              ELSE TargetOf(name, DlFolder))
    /\ files = files0
    /\ filesBefore = files0
    /\ fetchLog = <<>>
    /\ fname = <<>>
    /\ dl_ret = NoneVal
    /\ ext = NoneVal
    /\ opened = <<>>
    /\ ext_ret = NoneVal

DataIdle ==
    /\ func = "" /\ name = <<>> /\ url = <<>> /\ sha1_hash = "None"
    /\ folder = NoneVal /\ filename = <<>>
    /\ files = <<>> /\ files0 = <<>> /\ filesBefore = <<>>
    /\ fetchLog = <<>> /\ fname = <<>> /\ dl_ret = NoneVal
    /\ ext = NoneVal /\ opened = <<>> /\ ext_ret = NoneVal

\* where download returns to
AfterDownload == IF func = "download" THEN "done" ELSE "extract"

\* download up to the cache test, lines 512-526 (download_extract: 569)
DownloadCheck ==
    /\ pc = "call" /\ func \in {"download", "download_extract"}
    /\ IF ~StartsWithHttp(url) /\ url \notin DOMAIN DATA_HUB
       THEN /\ pc' = "raised"                                    \* KeyError
            /\ UNCHANGED <<url, sha1_hash, fname, dl_ret>>
       ELSE LET u == IF StartsWithHttp(url) THEN url
                     ELSE DATA_HUB[url][1]                       \* 514
                h == IF StartsWithHttp(url) THEN sha1_hash
                     ELSE DATA_HUB[url][2]
                f == PathJoin(DlFolder, LastSegment(u))          \* 516
            IN  /\ url' = u /\ sha1_hash' = h /\ fname' = f
                /\ IF CacheHit(files, f, h)
                   THEN dl_ret' = f /\ pc' = AfterDownload       \* 527
                   ELSE pc' = "fetch" /\ UNCHANGED dl_ret
    /\ UNCHANGED <<func, name, folder, filename, files, files0, filesBefore,
                   fetchLog, ext, opened, ext_ret, notData>>

\* lines 530-533: requests.get answers with content c, which is written
Fetch(c) ==
    /\ pc = "fetch"
    /\ fetchLog' = Append(fetchLog, c)                           \* 530
    /\ files' = Put(files, fname, c)                             \* 531-532
    /\ dl_ret' = fname                                           \* 533
    /\ pc' = AfterDownload
    /\ UNCHANGED <<func, name, url, sha1_hash, folder, filename, files0,
                   filesBefore, fname, ext, opened, ext_ret, notData>>

\* line 530: requests.get raises, and the exception leaves download
FetchFails ==
    /\ pc = "fetch"
    /\ fetchLog' = Append(fetchLog, "error")
    /\ pc' = "raised"
    /\ UNCHANGED <<func, name, url, sha1_hash, folder, filename, files,
                   files0, filesBefore, fname, dl_ret, ext, opened, ext_ret,
                   notData>>

\* extract, lines 535-546
Extract ==
    /\ pc = "call" /\ func = "extract"
    /\ LET base_dir == Dirname(filename)                         \* 537
           e == Splitext(filename)[2]                            \* 538
           target == IF folder = NoneVal THEN base_dir ELSE folder
       IN  /\ ext' = e
           /\ filesBefore' = files
           /\ IF ~ExtSupported(e)                                \* 539
              THEN pc' = "raised" /\ UNCHANGED <<opened, files>>
              ELSE /\ opened' = Append(opened, [by |-> Opener(e),
                                                file |-> filename])
                   /\ IF Readable(Opener(e), files, filename)
                      THEN /\ files' = ExtractAll(files, files[filename],
                                                  target)        \* 546
                           /\ pc' = "done"
                      ELSE pc' = "raised" /\ UNCHANGED files
    /\ UNCHANGED <<func, name, url, sha1_hash, folder, filename, files0,
                   fetchLog, fname, dl_ret, ext_ret, notData>>

\* download_extract after download has returned, lines 570-579
DownloadExtract ==
    /\ pc = "extract" /\ func = "download_extract"
    /\ LET base_dir == Dirname(dl_ret)                           \* 570
           data_dir == Splitext(dl_ret)[1]                       \* 571
           e == Splitext(dl_ret)[2]
       IN  /\ ext' = e
           /\ filesBefore' = files
           /\ IF OpenerDx(e) = "assert"                          \* 577
              THEN pc' = "raised" /\ UNCHANGED <<opened, files, ext_ret>>
              ELSE /\ opened' = Append(opened, [by |-> OpenerDx(e),
                                                file |-> dl_ret])
                   /\ IF Readable(OpenerDx(e), files, dl_ret)
                      THEN /\ files' = ExtractAll(files, files[dl_ret],
                                                  base_dir)      \* 578
                           /\ ext_ret' = IF folder # NoneVal
                                         THEN PathJoin(base_dir, folder)
                                         ELSE data_dir           \* 579
                           /\ pc' = "done"
                      ELSE pc' = "raised" /\ UNCHANGED <<files, ext_ret>>
    /\ UNCHANGED <<func, name, url, sha1_hash, folder, filename, files0,
                   fetchLog, fname, dl_ret, notData>>

DataNext ==
    \/ DownloadCheck
    \/ \E c \in Contents : Fetch(c)
    \/ FetchFails
    \/ Extract
    \/ DownloadExtract

(***************************************************************************)
(* ProgressBoard.draw (lines 134-172).  A raw point is a record of two     *)
(* integers.  A mean is the pair <<s, k>> that stands for s / k, so a      *)
(* plotted point is a record of two such pairs.  The two OrderedDicts are  *)
(* functions from the labels drawn so far; before the first call, when the *)
(* board has no attribute raw_points, they are the empty function.         *)
(***************************************************************************)
MaxDraws == 4
Labels == {"train", "val"}
EveryNs == {1, 2, 3}
DrawPoints == {[x |-> 1, y |-> 2], [x |-> 4, y |-> 0]}

\* a plausible slip: the dict is made anew with this one key
DictSetAlone(d, k, v) == [j \in {k} |-> v]

\* d[k] = v
DictSet(d, k, v) == [j \in DOMAIN d \cup {k} |-> IF j = k THEN v ELSE d[j]]

\* the sum in place of the mean
MeanAsSum(s) == <<SumSeq(s), 1>>

\* mean = lambda x: sum(x) / len(x)
Mean(s) == <<SumSeq(s), Len(s)>>

BoardInit ==
    /\ raw_points = <<>>
    /\ pb_data = <<>>
    /\ display \in BOOLEAN
    /\ shown = <<>>
    /\ drawLog = <<>>

BoardIdle ==
    /\ raw_points = <<>> /\ pb_data = <<>> /\ display = FALSE
    /\ shown = <<>> /\ drawLog = <<>>

\* draw(x, y, label, every_n)
Draw(x, y, label, every_n) ==
    /\ Len(drawLog) < MaxDraws
    /\ LET rp == IF label \in DOMAIN raw_points THEN raw_points
                 ELSE DictSet(raw_points, label, <<>>)           \* 140-141
           dt == IF label \in DOMAIN raw_points THEN pb_data
                 ELSE DictSet(pb_data, label, <<>>)              \* 142
           points == Append(rp[label], [x |-> x, y |-> y])       \* 145
       IN  IF Len(points) # every_n                              \* 146
           THEN /\ raw_points' = DictSet(rp, label, points)
                /\ pb_data' = dt
                /\ UNCHANGED shown
           ELSE /\ pb_data' = DictSet(dt, label, Append(dt[label],
                     [x |-> Mean([i \in DOMAIN points |-> points[i].x]),
                      y |-> Mean([i \in DOMAIN points |-> points[i].y])]))
                /\ raw_points' = DictSet(rp, label, <<>>)        \* 151
                /\ shown' = IF display THEN pb_data' ELSE shown  \* 152-172
    /\ drawLog' = Append(drawLog, [label |-> label, x |-> x, y |-> y,
                                   every_n |-> every_n])
    /\ UNCHANGED <<display, notBoard>>

BoardNext ==
    \E pt \in DrawPoints, label \in Labels, every_n \in EveryNs :
        Draw(pt.x, pt.y, label, every_n)

(***************************************************************************)
(* sequence_mask and MaskedSoftmaxCELoss (lines 775-804).  A tensor of two *)
(* or three dimensions is a record of its rank and its rows; an entry of a *)
(* row is an integer (rank 2) or a sequence of integers (rank 3).  Column  *)
(* j of the source is column j + 1 here.  The cross-entropy of one         *)
(* position is a positive integer that depends on the label and on the     *)
(* prediction of that position only; all values are finite.                *)
(***************************************************************************)
MaxMaskLen == 2
BatchSizes == {1, 2}
MaskVals == {1, 5}
MaskFills == {0, -1}
LossLabels == {1, 4}
LossPreds == {"p1", "p2"}

\* r rows of k entries from S
Rows(S, r, k) == [1..r -> [1..k -> S]]

\* the comparison with <= in place of <
MaskAtInclusive(j, vl) == j <= vl

\* lines 778-779: entry j of tf.range(0, maxlen) is less than the valid length
MaskAt(j, vl) == j < vl

\* value broadcast to the shape of one entry
Fill(rank, entry, value) ==
    IF rank = 3 THEN [k \in DOMAIN entry |-> value] ELSE value

\* sequence_mask(X, valid_len, value)
sequence_mask(X, vlens, value) ==
    [i \in DOMAIN X.v |->
        [j \in DOMAIN X.v[i] |->
            IF MaskAt(j - 1, vlens[i]) THEN X.v[i][j]
            ELSE Fill(X.rank, X.v[i][j], value)]]                \* 781-784

\* tf.ones_like(label)
OnesLike(label) == [rank |-> 2, v |-> [i \in DOMAIN label |->
                                        [j \in DOMAIN label[i] |-> 1]]]

\* CategoricalCrossentropy(from_logits=True, reduction='none') at one
\* position; multiples of 6, which keeps the means over 1, 2 or 3
\* positions integers where train_seq2seq adds them up
CrossEntropy(lb, pr) ==
    CASE lb = 1 /\ pr = "p1" -> 6
      [] lb = 1 /\ pr = "p2" -> 18
      [] lb = 4 /\ pr = "p1" -> 12
      [] OTHER -> 36

\* unweighted_loss * weights of MaskedSoftmaxCELoss.call
WeightedTerms(label, pred, vlens) ==
    LET weights == sequence_mask(OnesLike(label), vlens, 0)      \* 798-799
    IN  [i \in DOMAIN label |->
            [j \in DOMAIN label[i] |->
                CrossEntropy(label[i][j], pred[i][j]) * weights[i][j]]]

\* tf.reduce_mean(t, axis=1): one mean <<sum, count>> per row
ReduceMeanRows(t) == [i \in DOMAIN t |-> <<SumSeq(t[i]), Len(t[i])>>]

LossInit ==
    /\ pc = "call"
    /\ called \in {"sequence_mask", "MaskedSoftmaxCELoss"}
    /\ \E r \in BatchSizes :
         /\ mask_valid_len \in [1..r -> 0..(MaxMaskLen + 1)]
         /\ IF called = "sequence_mask"
            THEN /\ \E k \in 0..MaxMaskLen :
                      \/ mask_X \in {[rank |-> 2, v |-> w] :
                                        w \in Rows(MaskVals, r, k)}
                      \/ mask_X \in {[rank |-> 3, v |-> w] :
                                        w \in Rows({<<1, 5>>, <<5, 5>>}, r, k)}
                 /\ mask_value \in MaskFills
                 /\ loss_label = <<>> /\ loss_pred = <<>>
            ELSE /\ \E k \in 1..MaxMaskLen :
                      /\ loss_label \in Rows(LossLabels, r, k)
                      /\ loss_pred \in Rows(LossPreds, r, k)
                 /\ mask_X = <<>> /\ mask_value = 0
    /\ mask_ret = <<>>
    /\ loss_terms = <<>>
    /\ loss_ret = <<>>

LossIdle ==
    /\ called = "" /\ mask_X = <<>> /\ mask_valid_len = <<>>
    /\ mask_value = 0 /\ mask_ret = <<>> /\ loss_label = <<>>
    /\ loss_pred = <<>> /\ loss_terms = <<>> /\ loss_ret = <<>>

\* a call of sequence_mask
SequenceMask ==
    /\ pc = "call" /\ called = "sequence_mask"
    /\ mask_ret' = sequence_mask(mask_X, mask_valid_len, mask_value)
    /\ pc' = "done"
    /\ UNCHANGED <<called, mask_X, mask_valid_len, mask_value, loss_label,
                   loss_pred, loss_terms, loss_ret, notLoss>>

\* MaskedSoftmaxCELoss(valid_len)(label, pred)
MaskedLoss ==
    /\ pc = "call" /\ called = "MaskedSoftmaxCELoss"
    /\ loss_terms' = WeightedTerms(loss_label, loss_pred, mask_valid_len)
    /\ loss_ret' = ReduceMeanRows(loss_terms')                   \* 803
    /\ pc' = "done"
    /\ UNCHANGED <<called, mask_X, mask_valid_len, mask_value, mask_ret,
                   loss_label, loss_pred, notLoss>>

LossNext == SequenceMask \/ MaskedLoss

(***************************************************************************)
(* train_seq2seq (lines 807-831).  data_iter is a list of batches that can *)
(* be iterated once per epoch; a batch is a record of X, X_valid_len, Y    *)
(* and Y_valid_len.  The network is opaque: its predictions and its        *)
(* gradients are fixed functions of the number of optimizer steps taken so *)
(* far (net_version) and of what it is fed.  metric is the data list of    *)
(* the Accumulator, NoneVal while the name is not bound.                   *)
(***************************************************************************)
MaxEpochs == 10
MaxBatches == 2

TrainBatches ==
    { [X |-> << <<4, 4, 1>>, <<4, 1, 2>> >>, X_valid_len |-> <<3, 2>>,
       Y |-> << <<4, 4, 1>>, <<4, 1, 2>> >>, Y_valid_len |-> <<3, 2>>],
      [X |-> << <<4, 1, 2>> >>, X_valid_len |-> <<2>>,
       Y |-> << <<1, 2, 2>> >>, Y_valid_len |-> <<1>>] }

\* the threshold passed to grad_clipping on line 824
ClipThreshold == 1

\* the period of the animator, line 828
ReportEvery == 10

\* the target sequence fed as it is, not shifted
DecInputUnshifted(Y, bos) == Y

\* lines 817-819: a <bos> column, then Y without its last column
DecInput(Y, bos) ==
    [i \in DOMAIN Y |-> <<bos>> \o SubSeq(Y[i], 1, Len(Y[i]) - 1)]

\* Y_hat of net(X, dec_input, X_valid_len, training=True): one prediction
\* per position
NetForward(version, X, dec_in, X_vlen) ==
    [i \in DOMAIN dec_in |->
        [j \in DOMAIN dec_in[i] |->
            IF (version + dec_in[i][j] + j) % 2 = 0 THEN "p1" ELSE "p2"]]

\* tape.gradient(l, net.trainable_variables)
TapeGradient(version) ==
    IF version % 2 = 0
    THEN <<[kind |-> "dense", v |-> <<Num(3), Num(4)>>]>>
    ELSE <<[kind |-> "dense", v |-> <<Num(0), Num(1)>>]>>

\* d2l.grad_clipping(gradients, theta)
grad_clipping(gs, th) == ClipResult(CopyGrads(gs), th)

\* tf.reduce_sum(l) of the means of the examples, an integer here
ReduceSumLoss(ls) == SumSeq([i \in DOMAIN ls |-> ls[i][1] \div ls[i][2]])

\* the inner loop stops after the first batch
MoreBatchesFirstOnly(k, it) == k < 1 /\ k < Len(it)

\* for batch in data_iter: k batches taken so far, is there another one
MoreBatches(k, it) == k < Len(it)

TrainInit ==
    /\ pc = "epoch"
    /\ num_epochs \in 0..MaxEpochs
    /\ data_iter \in SeqsOf(TrainBatches, 0, MaxBatches)
    /\ epoch = 0
    /\ bidx = 0
    /\ timer = NoneVal
    /\ metric = NoneVal
    /\ dec_input = <<>>
    /\ loss = <<>>
    /\ gradients = <<>>
    /\ net_version = 0
    /\ trainLog = <<>>
    /\ animLog = <<>>
    /\ report = NoneVal

TrainIdle ==
    /\ num_epochs = 0 /\ data_iter = <<>> /\ epoch = 0 /\ bidx = 0
    /\ timer = NoneVal /\ metric = NoneVal /\ dec_input = <<>> /\ loss = <<>>
    /\ gradients = <<>> /\ net_version = 0 /\ trainLog = <<>> /\ animLog = <<>>
    /\ report = NoneVal

\* an entry of the history: the step, where it was taken and with what
Event(op, val) == [op |-> op, epoch |-> epoch, batch |-> bidx,
                   version |-> net_version, val |-> val]

\* a plausible slip: the accumulator is made once, before the first epoch
EpochMetricKept(m) == IF m = NoneVal THEN AccNew(2) ELSE m

\* line 814: metric is bound to a new Accumulator(2), whatever it was
EpochMetric(m) == AccNew(2)

\* lines 812-814: the next epoch, if any, starts with a new Timer and a new
\* Accumulator(2)
EpochHead ==
    /\ pc = "epoch"
    /\ IF epoch < num_epochs
       THEN /\ timer' = <<"Timer", epoch>>                       \* 813
            /\ metric' = EpochMetric(metric)                     \* 814
            /\ bidx' = 0
            /\ pc' = "batch"
       ELSE /\ pc' = "report"
            /\ UNCHANGED <<timer, metric, bidx>>
    /\ UNCHANGED <<num_epochs, data_iter, epoch, dec_input, loss, gradients,
                   net_version, trainLog, animLog, report, notTrain>>

\* lines 815-819: the next batch, if any, and its decoder input
BatchHead ==
    /\ pc = "batch"
    /\ IF MoreBatches(bidx, data_iter)
       THEN /\ bidx' = bidx + 1
            /\ dec_input' = DecInput(data_iter[bidx + 1].Y,
                                     VocabGet(tgt_idx_to_token, BOS))
            /\ pc' = "forward"
       ELSE /\ pc' = "epoch_end"
            /\ UNCHANGED <<bidx, dec_input>>
    /\ UNCHANGED <<num_epochs, data_iter, epoch, metric, loss, gradients,
                   net_version, trainLog, animLog, report, timer,
                   notTrain>>

\* lines 821-822: forward pass and masked loss
Forward ==
    /\ pc = "forward"
    /\ LET b == data_iter[bidx]
           Y_hat == NetForward(net_version, b.X, dec_input, b.X_valid_len)
       IN  loss' = ReduceMeanRows(WeightedTerms(b.Y, Y_hat,
                                                b.Y_valid_len))
    /\ trainLog' = Append(trainLog, Event("forward", <<"fed", dec_input>>))
    /\ pc' = "gradient"
    /\ UNCHANGED <<num_epochs, data_iter, epoch, bidx, metric, dec_input,
                   gradients, net_version, animLog, report, timer,
                   notTrain>>

\* line 823
Gradient ==
    /\ pc = "gradient"
    /\ gradients' = TapeGradient(net_version)
    /\ trainLog' = Append(trainLog, Event("gradient", <<"of", loss>>))
    /\ pc' = "clip"
    /\ UNCHANGED <<num_epochs, data_iter, epoch, bidx, metric, dec_input,
                   loss, net_version, animLog, report, timer,
                   notTrain>>

\* line 824
Clip ==
    /\ pc = "clip"
    /\ gradients' = grad_clipping(gradients, ClipThreshold)
    /\ trainLog' = Append(trainLog, Event("clip", <<"theta", ClipThreshold>>))
    /\ pc' = "step"
    /\ UNCHANGED <<num_epochs, data_iter, epoch, bidx, metric, dec_input,
                   loss, net_version, animLog, report, timer,
                   notTrain>>

\* line 825: the optimizer changes the parameters of the network
OptimizerStep ==
    /\ pc = "step"
    /\ net_version' = net_version + 1
    /\ trainLog' = Append(trainLog, Event("step", <<"applied", gradients>>))
    /\ pc' = "add"
    /\ UNCHANGED <<num_epochs, data_iter, epoch, bidx, metric, dec_input,
                   loss, gradients, animLog, report, timer,
                   notTrain>>

\* lines 826-827
MetricAdd ==
    /\ pc = "add"
    /\ LET num_tokens == SumSeq(data_iter[bidx].Y_valid_len)
           args == <<ReduceSumLoss(loss), num_tokens>>
       IN  /\ metric' = AccAdd(metric, args)
           /\ trainLog' = Append(trainLog, Event("add", <<"added", args>>))
    /\ pc' = "batch"
    /\ UNCHANGED <<num_epochs, data_iter, epoch, bidx, dec_input, loss,
                   gradients, net_version, animLog, report, timer,
                   notTrain>>

\* lines 828-829: every tenth epoch the mean loss goes to the animator; the
\* division raises when no token was counted
EpochEnd ==
    /\ pc = "epoch_end"
    /\ IF (epoch + 1) % ReportEvery = 0
       THEN IF metric[2] = 0
            THEN pc' = "raised" /\ UNCHANGED <<epoch, animLog>>
            ELSE /\ animLog' = Append(animLog,
                                      <<epoch + 1, <<metric[1], metric[2]>> >>)
                 /\ epoch' = epoch + 1
                 /\ pc' = "epoch"
       ELSE /\ epoch' = epoch + 1
            /\ pc' = "epoch"
            /\ UNCHANGED animLog
    /\ UNCHANGED <<num_epochs, data_iter, bidx, metric, dec_input, loss,
                   gradients, net_version, trainLog, report, timer,
                   notTrain>>

\* lines 830-831: the final print; metric is not bound when no epoch ran,
\* and the division raises when no token was counted
Report ==
    /\ pc = "report"
    /\ IF metric = NoneVal \/ metric[2] = 0
       THEN pc' = "raised" /\ UNCHANGED report
       ELSE report' = <<metric[1], metric[2], timer>> /\ pc' = "done"
    /\ UNCHANGED <<num_epochs, data_iter, epoch, bidx, metric, dec_input,
                   loss, gradients, net_version, trainLog, animLog, timer,
                   notTrain>>

TrainNext ==
    \/ EpochHead
    \/ BatchHead
    \/ Forward
    \/ Gradient
    \/ Clip
    \/ OptimizerStep
    \/ MetricAdd
    \/ EpochEnd
    \/ Report

(***************************************************************************)
(* HyperParameters.save_hyperparameters (lines 90-98), called from a       *)
(* constructor.  A name is a sequence of symbols, "_" being the underscore *)
(* character.  The frame of the constructor is given by its arguments      *)
(* (self among them) and by the local variables it has assigned before the *)
(* call, which may rebind an argument; dictionaries are functions.         *)
(***************************************************************************)
SELF == <<"self">>
ArgNames == {<<"a">>, <<"b">>, <<"_", "c">>}
LocalNames == {<<"a">>, <<"tmp">>, <<"_", "t">>, <<"_", "_", "class", "_", "_">>}
ArgVals == {1, 2}

\* all functions from a subset of D to R
Dicts(D, R) == UNION {[S -> R] : S \in SUBSET D}

\* inspect.getargvalues(frame).locals: frame.f_locals, every local variable
\* bound in the calling frame, the arguments with their current values
LocalVars(args, locs) ==
    [k \in DOMAIN args \cup DOMAIN locs |->
        IF k \in DOMAIN locs THEN locs[k] ELSE args[k]]

\* k.startswith('_')
StartsWithUnderscore(k) == k # <<>> /\ k[1] = "_"

\* lines 95-96: the dictionary comprehension
Captured(local_vars, ign) ==
    [k \in {j \in DOMAIN local_vars :
               /\ j \notin {ign[i] : i \in DOMAIN ign} \cup {SELF}
               /\ ~StartsWithUnderscore(j)} |-> local_vars[k]]

HpInit ==
    /\ pc = "call"
    /\ \E d \in Dicts(ArgNames, ArgVals) :
          hp_args = [k \in DOMAIN d \cup {SELF} |->
                        IF k = SELF THEN 0 ELSE d[k]]
    /\ hp_locals \in Dicts(LocalNames, {7})
    /\ ignore \in {<<>>, <<<<"b">>>>, <<<<"tmp">>, <<"b">>>>}
    /\ hparams = <<>>
    /\ attrs = <<>>

HpIdle ==
    /\ hp_args = <<>> /\ hp_locals = <<>> /\ ignore = <<>>
    /\ hparams = <<>> /\ attrs = <<>>

\* self.save_hyperparameters(ignore)
SaveHyperparameters ==
    /\ pc = "call"
    /\ hparams' = Captured(LocalVars(hp_args, hp_locals), ignore)  \* 93-96
    /\ attrs' = [k \in DOMAIN attrs \cup DOMAIN hparams' |->
                    IF k \in DOMAIN hparams' THEN hparams'[k]
                    ELSE attrs[k]]                                 \* 97-98
    /\ pc' = "done"
    /\ UNCHANGED <<hp_args, hp_locals, ignore, notHp>>

HpNext == SaveHyperparameters

(***************************************************************************)
(* Classifier.accuracy (lazy-init.ipynb, 458-464) and d2l.accuracy         *)
(* (part_000, 477-482).  Y_hat is a list of rows of integer scores, or,    *)
(* for d2l.accuracy, also a list of predicted classes; Y is the list of    *)
(* labels.  Classes count from 0.  What is returned is a record: a scalar  *)
(* <<s, k>> that stands for s / k (<<0, 0>> is the mean of nothing, nan),  *)
(* or a vector of 0 and 1.                                                 *)
(***************************************************************************)
Scores == {0, 1}
ClassCounts == {1, 2, 3}
AccBatch == {0, 1, 2}

\* tf.argmax(row): the first index of the largest score
ArgMax(row) ==
    (CHOOSE i \in DOMAIN row :
        /\ \A j \in DOMAIN row : row[j] <= row[i]
        /\ \A j \in 1..(i - 1) : row[j] < row[i]) - 1

\* tf.cast(a == b, dtype)
Eq01(a, b) == IF a = b THEN 1 ELSE 0

\* Classifier.accuracy(Y_hat, Y, averaged)
ClassifierAccuracy(yh, y, avg) ==
    LET preds == [i \in DOMAIN yh |-> ArgMax(yh[i])]             \* 462
        compare == [i \in DOMAIN yh |-> Eq01(preds[i], y[i])]    \* 463
    IN  IF avg
        THEN [kind |-> "scalar", val |-> <<SumSeq(compare), Len(compare)>>]
        ELSE [kind |-> "vector", val |-> compare]                \* 464

\* d2l.accuracy(y_hat, y); yh.rank is len(y_hat.shape)
Accuracy(yh, y) ==
    IF yh.rank > 1 /\ yh.cols > 1                                \* 479
    THEN [kind |-> "scalar",
          val |-> <<SumSeq([i \in DOMAIN yh.v |->
                              Eq01(ArgMax(yh.v[i]), y[i])]), 1>>]
    ELSE IF yh.rank > 1
    THEN \* one column: == broadcasts (n, 1) against (n,) to (n, n)
         [kind |-> "scalar",
          val |-> <<SumSeq([i \in DOMAIN yh.v |->
                       SumSeq([j \in DOMAIN y |-> Eq01(yh.v[i][1], y[j])])]),
                    1>>]
    ELSE [kind |-> "scalar",
          val |-> <<SumSeq([i \in DOMAIN yh.v |-> Eq01(yh.v[i], y[i])]), 1>>]

CmpInit ==
    /\ pc = "call"
    /\ acc_func \in {"Classifier.accuracy", "accuracy"}
    /\ averaged \in IF acc_func = "accuracy" THEN {TRUE} ELSE BOOLEAN
    /\ \E k \in AccBatch :
          /\ acc_Y \in [1..k -> 0..2]
          /\ \/ \E c \in ClassCounts :
                   acc_Y_hat \in {[rank |-> 2, cols |-> c, v |-> w] :
                                     w \in Rows(Scores, k, c)}
             \/ /\ acc_func = "accuracy"
                /\ acc_Y_hat \in {[rank |-> 1, cols |-> 0, v |-> w] :
                                     w \in [1..k -> 0..2]}
    /\ acc_ret = [kind |-> "none", val |-> <<>>]

CmpIdle ==
    /\ acc_func = "" /\ averaged = FALSE /\ acc_Y = <<>> /\ acc_Y_hat = <<>>
    /\ acc_ret = [kind |-> "none", val |-> <<>>]

\* a call of Classifier.accuracy
CallClassifierAccuracy ==
    /\ pc = "call" /\ acc_func = "Classifier.accuracy"
    /\ acc_ret' = ClassifierAccuracy(acc_Y_hat.v, acc_Y, averaged)
    /\ pc' = "done"
    /\ UNCHANGED <<acc_func, averaged, acc_Y, acc_Y_hat, notCmp>>

\* a call of d2l.accuracy
CallAccuracy ==
    /\ pc = "call" /\ acc_func = "accuracy"
    /\ acc_ret' = Accuracy(acc_Y_hat, acc_Y)
    /\ pc' = "done"
    /\ UNCHANGED <<acc_func, averaged, acc_Y, acc_Y_hat, notCmp>>

CmpNext == CallClassifierAccuracy \/ CallAccuracy

(***************************************************************************)
(* MyInit.__call__ (init-param.ipynb, lines 330-335).  A float is a        *)
(* multiple of 1/Grid, kept as the integer number of such steps.  A tensor *)
(* is a record of its shape, its dtype and its elements in row-major       *)
(* order.                                                                  *)
(***************************************************************************)
Grid == 2
Shapes == {<<>>, <<1>>, <<2>>, <<1, 2>>, <<2, 1>>}
Dtypes == {"float32", "float64"}

Abs(v) == IF v < 0 THEN -v ELSE v

\* the number of elements of a tensor of the given shape
RECURSIVE NumElements(_)
NumElements(shape) ==
    IF shape = <<>> THEN 1 ELSE Head(shape) * NumElements(Tail(shape))

\* the values tf.random.uniform(shape, -10, 10) draws from: [-10, 10)
Uniform == ((-10) * Grid)..(10 * Grid - 1)

\* a plausible slip: the comparison is strict
KeepsStrict(v) == Abs(v) > 5 * Grid

\* tf.abs(data) >= 5
Keeps(v) == Abs(v) >= 5 * Grid

\* tf.cast(factor, tf.float32) of a boolean, in steps of 1/Grid
CastFloat(b) == IF b THEN Grid ELSE 0

\* the product of two floats given in steps of 1/Grid
Times(v, w) == (v * w) \div Grid

MyInitInit ==
    /\ pc = "uniform"
    /\ init_shape \in Shapes
    /\ init_dtype \in Dtypes
    /\ init_data = <<>> /\ factor = <<>> /\ init_ret = <<>>

MyInitIdle ==
    /\ init_shape = <<>> /\ init_dtype = "" /\ init_data = <<>>
    /\ factor = <<>> /\ init_ret = <<>>

\* data=tf.random.uniform(shape, -10, 10, dtype=dtype)
RandomUniform ==
    /\ pc = "uniform"
    /\ \E v \in [1..NumElements(init_shape) -> Uniform] :
          init_data' = [shape |-> init_shape, dtype |-> init_dtype, v |-> v]
    /\ pc' = "factor"
    /\ UNCHANGED <<init_shape, init_dtype, factor, init_ret, notMyInit>>

\* factor=(tf.abs(data) >= 5); factor=tf.cast(factor, tf.float32)
Factor ==
    /\ pc = "factor"
    /\ factor' = [shape |-> init_data.shape, dtype |-> "float32",
                  v |-> [i \in DOMAIN init_data.v |->
                            CastFloat(Keeps(init_data.v[i]))]]
    /\ pc' = "multiply"
    /\ UNCHANGED <<init_shape, init_dtype, init_data, init_ret, notMyInit>>

\* return data * factor: the product of tensors of two dtypes raises
Multiply ==
    /\ pc = "multiply"
    /\ IF init_data.dtype # factor.dtype
       THEN pc' = "raised" /\ UNCHANGED init_ret
       ELSE /\ init_ret' = [shape |-> init_data.shape,
                            dtype |-> init_data.dtype,
                            v |-> [i \in DOMAIN init_data.v |->
                                     Times(init_data.v[i], factor.v[i])]]
            /\ pc' = "done"
    /\ UNCHANGED <<init_shape, init_dtype, init_data, factor, notMyInit>>

MyInitNext == RandomUniform \/ Factor \/ Multiply

(***************************************************************************)
(* tokenize_nmt (part_000, 707-717).  An optional integer is the set of    *)
(* its values: {} is None.                                                 *)
(***************************************************************************)
MaxNmtText == 5
NmtChars == {"a", " ", "\t", "\n"}
NumExamples == {{}, {0}, {1}, {2}}

\* a plausible slip: the loop stops one line early
StopsEarly(ne, k) == \E v \in ne : v # 0 /\ k >= v

\* line 711: num_examples and i > num_examples
Stops(ne, k) == \E v \in ne : v # 0 /\ k > v

TokNmtInit ==
    /\ pc = "loop"
    /\ text \in SeqsOf(NmtChars, 0, MaxNmtText)
    /\ num_examples \in NumExamples
    /\ loop_i = 0
    /\ nmt_source = <<>> /\ nmt_target = <<>> /\ examined = <<>>

TokNmtIdle ==
    /\ text = <<>> /\ num_examples = {} /\ loop_i = 0
    /\ nmt_source = <<>> /\ nmt_target = <<>> /\ examined = <<>>

\* one pass of the loop body for line i that does not break (lines 710-716)
TokenizeLine ==
    /\ pc = "loop"
    /\ loop_i < Len(SplitOn(text, "\n"))
    /\ ~Stops(num_examples, loop_i)
    /\ LET parts == SplitOn(SplitOn(text, "\n")[loop_i + 1], "\t")
       IN  IF Len(parts) = 2
           THEN /\ nmt_source' = Append(nmt_source, SplitOn(parts[1], " "))
                /\ nmt_target' = Append(nmt_target, SplitOn(parts[2], " "))
           ELSE UNCHANGED <<nmt_source, nmt_target>>
    /\ examined' = Append(examined, loop_i)
    /\ loop_i' = loop_i + 1
    /\ UNCHANGED <<pc, text, num_examples, notTokNmt>>

\* the break of line 712, or the end of the lines, and the return
TokenizeReturn ==
    /\ pc = "loop"
    /\ \/ loop_i >= Len(SplitOn(text, "\n"))
       \/ Stops(num_examples, loop_i)
    /\ pc' = "done"
    /\ UNCHANGED <<text, num_examples, loop_i, nmt_source, nmt_target,
                   examined,
                   notTokNmt>>

TokNmtNext == TokenizeLine \/ TokenizeReturn

(***************************************************************************)
(* f(a) of the control-flow example (autograd.ipynb, lines 580-588), for a *)
(* scalar a.  A float is a multiple of 1/Grid of magnitude at most         *)
(* FloatMax, kept as the integer number of steps; a result is rounded to   *)
(* the nearest step, and a result beyond FloatMax is infinite.  Doubling   *)
(* is exact up to overflow, as for binary floats.  The largest float is    *)
(* 2^20, so that squares of numbers around 1000 are finite, as they are    *)
(* in float32.                                                             *)
(***************************************************************************)
MaxA == 6
FloatMax == Grid * 1048576
Inf == FloatMax + 1

\* the arguments: the small ones, some around the loop bound 1000 and
\* around the largest square root, and the largest ones
AVals ==
    LET pos == (0..MaxA)
                 \cup {500 * Grid - 1, 500 * Grid, 1000 * Grid - 1,
                       1000 * Grid, 1024 * Grid, 1024 * Grid + 1,
                       FloatMax \div 2, FloatMax \div 2 + 1, FloatMax}
    IN  pos \cup {-v : v \in pos}

\* a float result: infinite beyond FloatMax
Overflow(v) == IF v > FloatMax THEN Inf ELSE IF v < -FloatMax THEN -Inf ELSE v

\* a plausible slip: the product is not taken
MulNot(v, k) == v

\* v * k for an integer k
Mul(v, k) == Overflow(v * k)

\* the integer nearest to the square root of y
SqrtNearest(y) ==
    LET r == CHOOSE q \in 0..(1024 * Grid + 1) :
                 q * q <= y /\ y < (q + 1) * (q + 1)
    IN  IF y - r * r > r THEN r + 1 ELSE r

\* v * v
Square(v) ==
    IF Abs(v) > 1024 * Grid THEN Inf
    ELSE Overflow((v * v + (Grid \div 2)) \div Grid)

\* tf.sqrt
Sqrt(v) == IF v = Inf THEN Inf ELSE SqrtNearest(Grid * v)

\* tf.norm of a scalar: sqrt(reduce_sum(b * b))
Norm(v) == Sqrt(Square(v))

AutogradInit ==
    /\ pc = "start"
    /\ fn_a \in AVals
    /\ fn_b = 0 /\ fn_c = 0

AutogradIdle == fn_a = 0 /\ fn_b = 0 /\ fn_c = 0

\* line 581: b = a * 2
AssignB ==
    /\ pc = "start"
    /\ fn_b' = Mul(fn_a, 2)
    /\ pc' = "while"
    /\ UNCHANGED <<fn_a, fn_c, notAutograd>>

\* lines 582-583: one pass of the loop body
LoopBody ==
    /\ pc = "while"
    /\ Norm(fn_b) < 1000 * Grid
    /\ fn_b' = Mul(fn_b, 2)
    /\ UNCHANGED <<pc, fn_a, fn_c, notAutograd>>

\* line 582: the loop test fails
LoopExit ==
    /\ pc = "while"
    /\ ~(Norm(fn_b) < 1000 * Grid)
    /\ pc' = "if"
    /\ UNCHANGED <<fn_a, fn_b, fn_c, notAutograd>>

\* lines 584-588: the branch on the sign and the return
Branch ==
    /\ pc = "if"
    /\ fn_c' = IF fn_b > 0 THEN fn_b ELSE Mul(fn_b, 100)
    /\ pc' = "done"
    /\ UNCHANGED <<fn_a, fn_b, notAutograd>>

AutogradNext == AssignB \/ LoopBody \/ LoopExit \/ Branch

\* the idle values of the variables of the components above
EarlierIdle ==
    /\ num_steps = 0 /\ lines = <<>>
    /\ AccIdle /\ PredIdle /\ ClipIdle /\ PadIdle /\ NmtIdle /\ TokIdle
LaterIdle ==
    /\ DataIdle
    /\ BoardIdle
    /\ LossIdle
    /\ TrainIdle
    /\ HpIdle
    /\ CmpIdle
    /\ MyInitIdle
    /\ TokNmtIdle
    /\ AutogradIdle

(***************************************************************************)
(* Specifications: one per component.                                      *)
(***************************************************************************)
InitAcc ==
    /\ AccInit /\ pc = "idle" /\ num_steps = 0 /\ lines = <<>>
    /\ PredIdle /\ ClipIdle /\ PadIdle /\ NmtIdle /\ TokIdle /\ LaterIdle
NextAcc == AccNext
SpecAcc == InitAcc /\ [][NextAcc]_vars

InitPred ==
    /\ PredInit /\ lines = <<>>
    /\ AccIdle /\ ClipIdle /\ PadIdle /\ NmtIdle /\ TokIdle /\ LaterIdle
NextPred == PredNext
SpecPred == InitPred /\ [][NextPred]_vars

InitClip ==
    /\ ClipInit /\ num_steps = 0 /\ lines = <<>>
    /\ AccIdle /\ PredIdle /\ PadIdle /\ NmtIdle /\ TokIdle /\ LaterIdle
NextClip == ClipNext
SpecClip == InitClip /\ [][NextClip]_vars

InitPad ==
    /\ PadInit /\ lines = <<>>
    /\ AccIdle /\ PredIdle /\ ClipIdle /\ NmtIdle /\ TokIdle /\ LaterIdle
NextPad == PadNext
SpecPad == InitPad /\ [][NextPad]_vars

InitNmt ==
    /\ NmtInit
    /\ AccIdle /\ PredIdle /\ ClipIdle /\ PadIdle /\ TokIdle /\ LaterIdle
NextNmt == NmtNext
SpecNmt == InitNmt /\ [][NextNmt]_vars

InitTok ==
    /\ TokInit /\ num_steps = 0
    /\ AccIdle /\ PredIdle /\ ClipIdle /\ PadIdle /\ NmtIdle /\ LaterIdle
NextTok == TokNext
SpecTok == InitTok /\ [][NextTok]_vars

InitData ==
    /\ DataInit /\ EarlierIdle
    /\ BoardIdle /\ LossIdle /\ TrainIdle /\ HpIdle /\ CmpIdle /\
       MyInitIdle /\ TokNmtIdle /\ AutogradIdle
NextData == DataNext
SpecData == InitData /\ [][NextData]_vars

InitBoard ==
    /\ BoardInit /\ EarlierIdle /\ pc = "idle"
    /\ DataIdle /\ LossIdle /\ TrainIdle /\ HpIdle /\ CmpIdle /\
       MyInitIdle /\ TokNmtIdle /\ AutogradIdle
NextBoard == BoardNext
SpecBoard == InitBoard /\ [][NextBoard]_vars

InitLoss ==
    /\ LossInit /\ EarlierIdle
    /\ DataIdle /\ BoardIdle /\ TrainIdle /\ HpIdle /\ CmpIdle /\
       MyInitIdle /\ TokNmtIdle /\ AutogradIdle
NextLoss == LossNext
SpecLoss == InitLoss /\ [][NextLoss]_vars

InitTrain ==
    /\ TrainInit /\ EarlierIdle
    /\ DataIdle /\ BoardIdle /\ LossIdle /\ HpIdle /\ CmpIdle /\
       MyInitIdle /\ TokNmtIdle /\ AutogradIdle
NextTrain == TrainNext
SpecTrain == InitTrain /\ [][NextTrain]_vars

InitHp ==
    /\ HpInit /\ EarlierIdle
    /\ DataIdle /\ BoardIdle /\ LossIdle /\ TrainIdle /\ CmpIdle /\
       MyInitIdle /\ TokNmtIdle /\ AutogradIdle
NextHp == HpNext
SpecHp == InitHp /\ [][NextHp]_vars

InitCmp ==
    /\ CmpInit /\ EarlierIdle
    /\ DataIdle /\ BoardIdle /\ LossIdle /\ TrainIdle /\ HpIdle /\
       MyInitIdle /\ TokNmtIdle /\ AutogradIdle
NextCmp == CmpNext
SpecCmp == InitCmp /\ [][NextCmp]_vars

InitMyInit ==
    /\ MyInitInit /\ EarlierIdle
    /\ DataIdle /\ BoardIdle /\ LossIdle /\ TrainIdle /\ HpIdle /\ CmpIdle /\
       TokNmtIdle /\ AutogradIdle
NextMyInit == MyInitNext
SpecMyInit == InitMyInit /\ [][NextMyInit]_vars

InitTokNmt ==
    /\ TokNmtInit /\ EarlierIdle
    /\ DataIdle /\ BoardIdle /\ LossIdle /\ TrainIdle /\ HpIdle /\ CmpIdle /\
       MyInitIdle /\ AutogradIdle
NextTokNmt == TokNmtNext
SpecTokNmt == InitTokNmt /\ [][NextTokNmt]_vars

InitAutograd ==
    /\ AutogradInit /\ EarlierIdle
    /\ DataIdle /\ BoardIdle /\ LossIdle /\ TrainIdle /\ HpIdle /\ CmpIdle /\
       MyInitIdle /\ TokNmtIdle
NextAutograd == AutogradNext
SpecAutograd == InitAutograd /\ [][NextAutograd]_vars

\* f runs on: a step that can be taken is taken
SpecAutogradFair == SpecAutograd /\ WF_vars(NextAutograd)

(***************************************************************************)
(* Claims.                                                                 *)
(***************************************************************************)

\* the sum of the i-th arguments of the add calls in h
RECURSIVE ColSum(_, _)
ColSum(h, i) ==
    IF h = <<>> THEN 0 ELSE ColSum(SubSeq(h, 1, Len(h) - 1), i) + h[Len(h)][i]

\* C1: when every add call passed n values, slot i is the sum of the i-th
\* arguments of the add calls since construction or since the latest reset,
\* and right after a reset every slot is 0.
C1_SlotsAreSums ==
    fullArgs =>
        /\ Len(data) = n
        /\ \A i \in 1..n : data[i] = ColSum(adds, i)
        /\ (last = "reset" => \A i \in 1..n : data[i] = 0)

\* C1 witness: a reset, then two add calls of n values that leave a slot
\* different from each single argument.
C1_Witness ==
    /\ fullArgs /\ last = "add" /\ calls = 3 /\ Len(adds) = 2
    /\ n = 2 /\ data[1] = 1 /\ data[2] = 4

\* C2: the number of slots is the n given at construction, in every state.
C2_SlotCountFixed == Len(data) = n

eosIdx == VocabGet(tgt_idx_to_token, EOS)
bosIdx == VocabGet(tgt_idx_to_token, BOS)

\* C3 as stated: at most num_steps decoder steps, and fewer than num_steps
\* if and only if some step's arg-max token is <eos>.
C3_FewerIffEos ==
    pc = "done" =>
        /\ Len(decLog) <= num_steps
        /\ (Len(decLog) < num_steps
              <=> \E k \in DOMAIN decLog : decLog[k].pred = eosIdx)

\* C3 amended: at most num_steps decoder steps, and fewer than num_steps if
\* and only if a step before the num_steps-th has <eos> as its arg-max
\* token.
C3_FewerIffEosBeforeLast ==
    /\ Len(decLog) <= num_steps
    /\ pc = "done" =>
         (Len(decLog) < num_steps
            <=> \E k \in DOMAIN decLog : k < num_steps /\ decLog[k].pred = eosIdx)

\* C3 witness: <eos> is the arg-max of the num_steps-th step.
C3_Witness ==
    /\ pc = "done" /\ num_steps = 2 /\ Len(decLog) = 2
    /\ decLog[2].pred = eosIdx

\* C4: exactly one encoder call, made before the first decoder step, for
\* every source sentence; then at most num_steps decoder steps.
C4_EncodeOnce ==
    /\ pc = "start" => encLog = <<>> /\ decLog = <<>>
    /\ pc # "start" => Len(encLog) = 1
    /\ Len(decLog) <= num_steps

\* C4 witness: the empty sentence, decoded for num_steps steps.
C4_Witness ==
    /\ pc = "done" /\ src_sentence = <<>> /\ num_steps = 2 /\ Len(decLog) = 2

\* C5: the first decoder input is <bos>, every later input is the arg-max
\* token of the step before, and every step gets the state the step before
\* returned (the first one the state init_state returned).
C5_FeedBack ==
    \A k \in DOMAIN decLog :
        /\ decLog[k].X = (IF k = 1 THEN bosIdx ELSE decLog[k - 1].pred)
        /\ decLog[k].state =
              (IF k = 1
               THEN InitState(Encoder(encLog[1].X, encLog[1].valid_len),
                              encLog[1].valid_len)
               ELSE decLog[k - 1].new_state)

\* C5 witness: three steps whose arg-max tokens differ from <bos>.
C5_Witness ==
    /\ Len(decLog) = 3
    /\ decLog[1].pred = 4 /\ decLog[2].pred = 3 /\ decLog[3].X = 3

\* the elements of the gradients passed, IndexedSlices taken by the dense
\* tensor they stand for
PassedDense(i) ==
    IF grads0[i].kind = "dense"
    THEN [j \in DOMAIN grads0[i].v |-> grads0[i].v[j][1]]
    ELSE [j \in 1..grads0[i].dim |->
            SumSeq([k \in DOMAIN grads0[i].indices |->
                      IF grads0[i].indices[k] = j
                      THEN grads0[i].values[k][1] ELSE 0])]

\* the square of the global L2 norm of the gradients passed
PassedNormSq ==
    SumSeq([i \in DOMAIN grads0 |->
              SumSeq([j \in DOMAIN PassedDense(i) |->
                        PassedDense(i)[j] * PassedDense(i)[j]])])

\* the sum of the squared numerators of the elements returned
ReturnedNumSq ==
    SumSeq([i \in DOMAIN new_grad |->
              SumSeq([j \in DOMAIN new_grad[i].v |->
                        new_grad[i].v[j][1] * new_grad[i].v[j][1]])])

\* C6: with a global norm of at most theta every gradient is returned with
\* its values unchanged; with a greater one every returned gradient is the
\* gradient passed times theta / norm, and the global norm of the result
\* is theta.
C6_ClipToTheta ==
    pc = "done" =>
        /\ Len(new_grad) = Len(grads0)
        /\ \A i \in DOMAIN grads0 :
              /\ new_grad[i].kind = "dense"
              /\ Len(new_grad[i].v) = Len(PassedDense(i))
              /\ \A j \in DOMAIN PassedDense(i) :
                    IF PassedNormSq <= theta * theta
                    THEN ValEq(new_grad[i].v[j], <<PassedDense(i)[j], 1>>)
                    ELSE /\ ValEq(new_grad[i].v[j],
                                  <<PassedDense(i)[j] * theta, PassedNormSq>>)
                         /\ new_grad[i].v[j][2] = PassedNormSq
        /\ PassedNormSq > theta * theta =>
              ReturnedNumSq = theta * theta * PassedNormSq

\* C6 witness: two gradients, one of them IndexedSlices, of global norm
\* sqrt(6) > theta = 2, scaled.
C6_Witness ==
    /\ pc = "done" /\ theta = 2 /\ Len(grads0) = 2
    /\ grads0[1].kind = "slices" /\ grads0[2].kind = "dense"
    /\ PassedNormSq = 6
    /\ new_grad[2].v[1] = <<2, 6>>

C8_TruncatePadLength ==
    pc = "done" =>
        /\ Len(padded) = num_steps
        /\ \A i \in 1..num_steps :
              padded[i] = (IF i <= Len(line) THEN line[i] ELSE padding_token)

\* C8 witness: a line of one element padded to three.
C8_Witness ==
    /\ pc = "done" /\ Len(line) = 1 /\ num_steps = 3
    /\ padded = <<line[1], padding_token, padding_token>>

\* C9: build_array_nmt returns, every row of its array has num_steps
\* entries, and there is one valid length per row.
C9_RowsHaveNumSteps ==
    /\ pc # "raised"
    /\ pc = "done" =>
          /\ Len(array) = Len(lines)
          /\ \A r \in DOMAIN array : Len(array[r]) = num_steps
          /\ Len(valid_len) = Len(array)

\* C9 witness: a line longer and a line shorter than num_steps.
C9_Witness ==
    /\ pc = "done" /\ num_steps = 2 /\ Len(lines) = 2
    /\ Len(lines[1]) = 3 /\ Len(lines[2]) = 0
    /\ valid_len = <<2, 1>>

RECURSIVE Concat(_)
Concat(toks) == IF toks = <<>> THEN <<>> ELSE toks[1] \o Concat(Tail(toks))

\* the text without its whitespace characters
NoSpace(s) == SelectSeq(s, LAMBDA c : c \notin Whitespace)

\* C10: one token list per line, in order; the 'char' tokens of a line
\* concatenate to the line; the 'word' tokens of a line are not empty,
\* hold no whitespace and concatenate to the line without its whitespace.
C10_TokensRebuildLine ==
    pc = "done" =>
        /\ Len(ret) = Len(lines)
        /\ \A i \in DOMAIN lines :
              IF token = "char"
              THEN Concat(ret[i]) = lines[i]
              ELSE /\ Concat(ret[i]) = NoSpace(lines[i])
                   /\ \A k \in DOMAIN ret[i] :
                         /\ ret[i][k] # <<>>
                         /\ \A j \in DOMAIN ret[i][k] :
                               ret[i][k][j] \notin Whitespace

\* C10 witness: two lines in 'word' mode, the first with a tab between two
\* words.
C10_Witness ==
    /\ pc = "done" /\ token = "word" /\ Len(lines) = 2
    /\ lines[1] = <<"a", "\t", "b">>
    /\ ret[1] = << <<"a">>, <<"b">> >>

\* C11: tokenize called with a mode flag other than 'word' and 'char' ends
\* in the assertion error and returns no list of token lists, whatever the
\* lines are; it never reaches its return statement.
C11_UnknownFlagRaises ==
    (pc # "call" /\ token \notin {"word", "char"}) =>
        (pc = "raised" /\ ret = <<>>)

\* C11 witness: the assertion failed on a list of two lines; C11_WitnessEmpty
\* is the same on the empty list of lines.
C11_Witness ==
    pc = "raised" /\ token = "line" /\ Len(lines) = 2 /\ lines[1] # <<>>

C11_WitnessEmpty == pc = "raised" /\ token = "line" /\ lines = <<>>

\* download has returned: to its caller, or into download_extract
DownloadReturned ==
    \/ func = "download" /\ pc = "done"
    \/ func = "download_extract" /\ dl_ret # NoneVal

\* the local file existed at the call and its SHA-1 is the checksum in force
HitAtCall ==
    /\ fname \in DOMAIN files0
    /\ sha1_hash \notin {"None", ""}
    /\ Sha1(files0[fname]) = sha1_hash

\* C12: when the local file exists and its SHA-1 equals the checksum,
\* download returns its path without a fetch and without touching the file
\* system; in every other case it fetches exactly once and returns after
\* overwriting the local file with what was fetched, no other file touched.
\* A fetch that raises is not repeated and leaves the file system alone.
C12_FetchOnceUnlessCached ==
    func \in {"download", "download_extract"} =>
        /\ Len(fetchLog) <= 1
        /\ (pc \in {"call", "fetch"} => fetchLog = <<>> /\ files = files0)
        /\ (pc = "fetch" => ~HitAtCall)
        /\ (fetchLog = <<"error">> =>
                pc = "raised" /\ ~HitAtCall /\ files = files0)
        /\ (DownloadReturned /\ ext = NoneVal =>
                /\ dl_ret = fname
                /\ IF HitAtCall
                   THEN fetchLog = <<>> /\ files = files0
                   ELSE /\ Len(fetchLog) = 1 /\ fetchLog[1] \in Contents
                        /\ DOMAIN files = DOMAIN files0 \cup {fname}
                        /\ files[fname] = fetchLog[1]
                        /\ \A x \in DOMAIN files0 \ {fname} :
                               files[x] = files0[x])

\* C12 witness: a local file whose SHA-1 differs from the checksum given
\* was overwritten by the one fetch; C12_WitnessHit: 'fra-eng' found in the
\* cache with the checksum of DATA_HUB, nothing fetched.
C12_Witness ==
    /\ func = "download" /\ pc = "done"
    /\ fname \in DOMAIN files0 /\ sha1_hash = "94646ad1"
    /\ files0[fname] = "tar1"
    /\ fetchLog = <<"zip1">> /\ files[fname] = "zip1"

C12_WitnessHit ==
    /\ func = "download" /\ pc = "done" /\ name = <<"fra-eng">>
    /\ fname \in DOMAIN files0 /\ files0[fname] = "zip1"
    /\ fetchLog = <<>>

\* C13: once download has returned with a checksum in force, the file at
\* the returned path has that SHA-1.
C13_ReturnedFileHasChecksum ==
    (DownloadReturned /\ sha1_hash \notin {"None", ""}) =>
        (dl_ret \in DOMAIN files /\ Sha1(files[dl_ret]) = sha1_hash)

\* C14: once the extension has been looked at, an archive has been opened
\* exactly when the extension is .zip, .tar or .gz; with any other extension
\* the function has failed, no archive was opened and the file system is as
\* it was when the extraction began.
C14_ExtractOnlyArchives ==
    ext # NoneVal =>
        IF ext \in {<<".", "zip">>, <<".", "tar">>, <<".", "gz">>}
        THEN /\ Len(opened) = 1
             /\ opened[1].file = IF func = "extract" THEN filename ELSE dl_ret
        ELSE pc = "raised" /\ opened = <<>> /\ files = filesBefore

\* C14 witness: extract of an existing file d/f.txt failed without opening
\* it; C14_WitnessDx: download_extract fetched b.txt and failed the same
\* way; C14_WitnessGz: a .tar.gz was extracted into the given folder.
C14_Witness ==
    /\ func = "extract" /\ pc = "raised"
    /\ filename = <<"d", "/", "f", ".", "txt">> /\ filename \in DOMAIN files
    /\ ext = <<".", "txt">> /\ opened = <<>>

C14_WitnessDx ==
    /\ func = "download_extract" /\ pc = "raised"
    /\ ext = <<".", "txt">> /\ Len(fetchLog) = 1 /\ opened = <<>>

C14_WitnessGz ==
    /\ func = "extract" /\ pc = "done" /\ ext = <<".", "gz">>
    /\ folder = <<"out">> /\ <<"out", "/", "m">> \in DOMAIN files

\* the draw calls made for label lb, in order
CallsOf(lb) == SelectSeq(drawLog, LAMBDA c : c.label = lb)

\* the sum of f(c) over the calls c[a], ..., c[b]
RECURSIVE SumX(_, _, _)
SumX(c, a, b) == IF a > b THEN 0 ELSE c[a].x + SumX(c, a + 1, b)
RECURSIVE SumY(_, _, _)
SumY(c, a, b) == IF a > b THEN 0 ELSE c[a].y + SumY(c, a + 1, b)

\* C15: for a label whose k draw calls all passed the same every_n = N >= 1,
\* the plotted series has floor(k / N) points, the j-th being the means of x
\* and of y over the calls (j-1)N+1 .. jN, and the raw buffer holds the last
\* k mod N points.
C15_SeriesOfMeans ==
    \A lb \in Labels : \A N \in EveryNs :
        LET c == CallsOf(lb)
            k == Len(c)
        IN  (k >= 1 /\ \A i \in 1..k : c[i].every_n = N) =>
                /\ Len(pb_data[lb]) = k \div N
                /\ \A j \in 1..(k \div N) :
                      LET p == pb_data[lb][j]
                      IN  /\ p.x[1] * N = SumX(c, (j - 1) * N + 1, j * N) * p.x[2]
                          /\ p.y[1] * N = SumY(c, (j - 1) * N + 1, j * N) * p.y[2]
                          /\ p.x[2] > 0 /\ p.y[2] > 0
                /\ Len(raw_points[lb]) = k % N
                /\ \A i \in 1..(k % N) :
                      LET q == raw_points[lb][i]
                          d == c[(k \div N) * N + i]
                      IN  q.x = d.x /\ q.y = d.y

\* C15 witness: three calls for "train" with every_n = 2, and one for "val"
\* in between: one plotted point (5/2, 1) and one raw point left.
C15_Witness ==
    /\ Len(CallsOf("train")) = 3 /\ Len(CallsOf("val")) = 1
    /\ \A i \in 1..3 : CallsOf("train")[i].every_n = 2
    /\ Len(pb_data["train"]) = 1
    /\ pb_data["train"][1].x = <<5, 2>> /\ pb_data["train"][1].y = <<2, 2>>
    /\ Len(raw_points["train"]) = 1

\* C17: sequence_mask returns X with entry (i, j) kept when j is less than
\* valid_len[i] and filled with value otherwise (j counted from 0); in
\* MaskedSoftmaxCELoss the term of position (i, j) in example i's mean is
\* the cross-entropy of that position when j is less than valid_len[i] and
\* 0 otherwise, whatever the label and the prediction there.
C17_MaskedByValidLen ==
    /\ (pc = "done" /\ called = "sequence_mask") =>
          /\ DOMAIN mask_ret = DOMAIN mask_X.v
          /\ \A i \in DOMAIN mask_X.v :
                /\ DOMAIN mask_ret[i] = DOMAIN mask_X.v[i]
                /\ \A j \in DOMAIN mask_X.v[i] :
                      IF j - 1 < mask_valid_len[i]
                      THEN mask_ret[i][j] = mask_X.v[i][j]
                      ELSE IF mask_X.rank = 2
                      THEN mask_ret[i][j] = mask_value
                      ELSE /\ Len(mask_ret[i][j]) = Len(mask_X.v[i][j])
                           /\ \A k \in DOMAIN mask_ret[i][j] :
                                 mask_ret[i][j][k] = mask_value
    /\ (pc = "done" /\ called = "MaskedSoftmaxCELoss") =>
          \A i \in DOMAIN loss_label :
              /\ \A j \in DOMAIN loss_label[i] :
                    loss_terms[i][j] =
                        IF j - 1 < mask_valid_len[i]
                        THEN CrossEntropy(loss_label[i][j], loss_pred[i][j])
                        ELSE 0
              /\ loss_ret[i] = <<SumSeq(loss_terms[i]), Len(loss_label[i])>>

\* C17 witness: a loss over two examples of two positions with valid
\* lengths 1 and 2: the second position of the first example adds 0, every
\* other position its cross-entropy.  C17_WitnessMask: a rank-3 X masked
\* with value -1.
C17_Witness ==
    /\ pc = "done" /\ called = "MaskedSoftmaxCELoss"
    /\ mask_valid_len = <<1, 2>>
    /\ loss_label = << <<4, 4>>, <<1, 4>> >>
    /\ loss_pred = << <<"p1", "p2">>, <<"p2", "p2">> >>
    /\ loss_terms = << <<12, 0>>, <<18, 36>> >>
    /\ loss_ret = << <<12, 2>>, <<54, 2>> >>

C17_WitnessMask ==
    /\ pc = "done" /\ called = "sequence_mask"
    /\ mask_X.rank = 3 /\ mask_valid_len = <<1>> /\ mask_value = -1
    /\ mask_ret = << << <<1, 5>>, <<-1, -1>> >> >>

\* the steps of one batch, in the order of the claim
BatchSteps == <<"forward", "gradient", "clip", "step", "add">>

\* the loops of train_seq2seq are over
LoopsOver == pc \in {"report", "done", "raised"}

\* C16: the history of train_seq2seq is made of blocks of five steps, one
\* block per batch of every epoch in the order of the iterator: forward
\* pass and loss, gradient, clipping with threshold 1, one optimizer step
\* (the i-th step of the run in the i-th block), then the add of the loss
\* sum and the token count of that batch to the accumulator of the epoch;
\* when the loops are over, num_epochs * B optimizer steps have been made.
C16_StepsPerBatchInOrder ==
    LET B == Len(data_iter)
    IN  /\ \A i \in DOMAIN trainLog :
              LET ev == trainLog[i]
                  blk == (i - 1) \div 5
              IN  /\ ev.op = BatchSteps[((i - 1) % 5) + 1]
                  /\ ev.epoch = blk \div B
                  /\ ev.batch = (blk % B) + 1
                  /\ ev.version = IF ev.op = "add" THEN blk + 1 ELSE blk
                  /\ ev.op = "clip" => ev.val = <<"theta", 1>>
                  /\ ev.op = "add" =>
                        /\ ev.val[2][1] =
                              SumSeq([r \in DOMAIN trainLog[i - 3].val[2] |->
                                         trainLog[i - 3].val[2][r][1]
                                            \div trainLog[i - 3].val[2][r][2]])
                        /\ ev.val[2][2] =
                              SumSeq(data_iter[ev.batch].Y_valid_len)
        /\ net_version = Len(trainLog) \div 5 + (IF pc = "add" THEN 1 ELSE 0)
        /\ (pc \in {"batch", "epoch_end"} /\ metric # NoneVal) =>
              metric[2] = SumSeq([k \in 1..bidx |->
                                    SumSeq(data_iter[k].Y_valid_len)])
        /\ LoopsOver =>
              /\ net_version = num_epochs * B
              /\ Len(trainLog) = 5 * num_epochs * B

\* C16 witness: two epochs over two batches are over: four optimizer steps.
C16_Witness ==
    /\ pc = "done" /\ num_epochs = 2 /\ Len(data_iter) = 2
    /\ net_version = 4 /\ Len(trainLog) = 20
    /\ trainLog[18].op = "clip" /\ trainLog[19].op = "step"

\* C18: the decoder input of every forward pass has as many columns as Y,
\* starts with <bos>, and holds at column t >= 1 the token of Y at column
\* t - 1: it is <bos> followed by Y without its last token.
C18_TeacherForcing ==
    \A i \in DOMAIN trainLog :
        trainLog[i].op = "forward" =>
            LET Y == data_iter[trainLog[i].batch].Y
                fed == trainLog[i].val[2]
            IN  /\ DOMAIN fed = DOMAIN Y
                /\ \A r \in DOMAIN Y :
                      /\ Len(fed[r]) = Len(Y[r])
                      /\ fed[r][1] = bosIdx
                      /\ \A t \in 2..Len(Y[r]) : fed[r][t] = Y[r][t - 1]

\* C18 witness: the batch of two examples was fed as <bos> 4 4 and
\* <bos> 4 1, the last tokens <eos> and <pad> left out.
C18_Witness ==
    /\ pc = "gradient"
    /\ data_iter[bidx].Y = << <<4, 4, 1>>, <<4, 1, 2>> >>
    /\ trainLog[Len(trainLog)].op = "forward"
    /\ trainLog[Len(trainLog)].val[2] = << <<0, 4, 4>>, <<0, 4, 1>> >>

\* the names the claim has captured: the arguments other than self, the
\* ignored names and the names that start with an underscore
ArgsToCapture ==
    {k \in DOMAIN hp_args :
        /\ k # <<"self">>
        /\ \A i \in DOMAIN ignore : ignore[i] # k
        /\ k[1] # "_"}

\* C19: after save_hyperparameters, hparams and the attributes it has set
\* hold exactly the arguments of the constructor to capture, each with the
\* value it was passed.
C19_ExactlyTheArguments ==
    pc = "done" =>
        /\ DOMAIN hparams = ArgsToCapture
        /\ DOMAIN attrs = ArgsToCapture
        /\ \A k \in ArgsToCapture :
              hparams[k] = hp_args[k] /\ attrs[k] = hp_args[k]

\* the case in which C19 does hold: no local variable assigned before the
\* call
C19_HoldsWithoutLocals ==
    (pc = "done" /\ DOMAIN hp_locals \subseteq {<<"_", "t">>,
                                                <<"_", "_", "class", "_", "_">>})
        => C19_ExactlyTheArguments

C19_WitnessLocal ==
    /\ pc = "done" /\ DOMAIN hp_args = {<<"self">>, <<"a">>}
    /\ DOMAIN hp_locals = {<<"tmp">>} /\ ignore = <<>>
    /\ DOMAIN hparams = {<<"a">>, <<"tmp">>}

\* the number of rows of Y_hat whose first largest score is at the label
CorrectCount ==
    Cardinality({i \in DOMAIN acc_Y_hat.v :
        \E c \in DOMAIN acc_Y_hat.v[i] :
            /\ c - 1 = acc_Y[i]
            /\ \A j \in DOMAIN acc_Y_hat.v[i] :
                  acc_Y_hat.v[i][j] <= acc_Y_hat.v[i][c]
            /\ \A j \in 1..(c - 1) : acc_Y_hat.v[i][j] < acc_Y_hat.v[i][c]})

\* C20: Classifier.accuracy(Y_hat, Y) returns the number of correct
\* predictions, the sum of the 0/1 comparisons of each row's arg-max with its
\* label.
C20_ReturnsCorrectCount ==
    (pc = "done" /\ acc_func = "Classifier.accuracy" /\ averaged) =>
        /\ acc_ret.kind = "scalar"
        /\ acc_ret.val[2] # 0
        /\ acc_ret.val[1] = CorrectCount * acc_ret.val[2]

\* what Classifier.accuracy(Y_hat, Y) does return: the fraction of correct
\* predictions, and d2l.accuracy of a Y_hat of two or more columns their
\* number
C20_FractionAndCount ==
    pc = "done" =>
        /\ (acc_func = "Classifier.accuracy" /\ averaged) =>
              acc_ret = [kind |-> "scalar",
                         val |-> <<CorrectCount, Len(acc_Y)>>]
        /\ (acc_func = "accuracy" /\ acc_Y_hat.rank = 2
                /\ acc_Y_hat.cols > 1) =>
              acc_ret = [kind |-> "scalar", val |-> <<CorrectCount, 1>>]

C20_WitnessFraction ==
    /\ pc = "done" /\ acc_func = "Classifier.accuracy" /\ averaged
    /\ acc_Y_hat.v = << <<0, 1>>, <<1, 0>> >> /\ acc_Y = <<1, 0>>
    /\ acc_ret.val = <<2, 2>>

\* the index of <pad> in the source vocabulary
srcPadIdx == VocabGet(src_idx_to_token, PAD)

\* C21: the valid length given to the encoder and to init_state is the
\* number of tokens other than <pad> in the sequence given to the encoder,
\* and is at most num_steps.
C21_ValidLenCountsNonPad ==
    pc \in {"loop", "break", "done"} =>
        /\ encLog[1].valid_len =
              Cardinality({i \in DOMAIN encLog[1].X :
                              encLog[1].X[i] # srcPadIdx})
        /\ encLog[1].valid_len <= num_steps
        /\ dec_state.valid_len = encLog[1].valid_len

\* C21, where it does hold: the sentence and its <eos> fit into num_steps
\* and no word of it is '<pad>'.
C21_HoldsWhenItFits ==
    (/\ pc \in {"loop", "break", "done"}
     /\ Len(SplitOn(src_sentence, " ")) + 1 <= num_steps
     /\ \A i \in DOMAIN src_sentence : src_sentence[i] # "<pad>")
        => C21_ValidLenCountsNonPad

C21_WitnessTruncated ==
    /\ pc = "done" /\ num_steps = 2 /\ src_sentence = <<"A", " ", "A">>
    /\ Len(encLog[1].X) = 2 /\ encLog[1].valid_len = 3

\* C22: with save_attention_weights the list returned holds the attention
\* weights of every decoder step made, in the order of the steps, the step
\* that predicted <eos> included; without it the list is empty.
C22_WeightsPerStep ==
    pc = "done" =>
        IF save_attention_weights
        THEN /\ Len(attention_weight_seq) = Len(decLog)
             /\ \A k \in DOMAIN decLog :
                   attention_weight_seq[k] = decLog[k].new_state.fed
        ELSE attention_weight_seq = <<>>

\* C22 witness: two steps, the second predicting <eos>, two entries saved.
C22_Witness ==
    /\ pc = "done" /\ save_attention_weights /\ num_steps = 3
    /\ Len(decLog) = 2 /\ decLog[2].pred = eosIdx
    /\ Len(attention_weight_seq) = 2
    /\ attention_weight_seq[1] # attention_weight_seq[2]

\* C26: the tokens returned hold no <eos> and are at most num_steps: one
\* less than the decoder steps made when the last step predicted <eos>,
\* and num_steps otherwise; the text returned is these tokens joined.
C26_ReturnedTokens ==
    pc = "done" =>
        /\ \A i \in DOMAIN output_seq : output_seq[i] # eosIdx
        /\ Len(output_seq) <= num_steps
        /\ IF decLog # <<>> /\ decLog[Len(decLog)].pred = eosIdx
           THEN Len(output_seq) = Len(decLog) - 1
           ELSE Len(output_seq) = num_steps
        /\ \A i \in DOMAIN output_seq : output_seq[i] = decLog[i].pred
        /\ translation = Join(" ", [i \in DOMAIN output_seq |->
                                       tgt_idx_to_token[output_seq[i] + 1]])

\* C26 witness: <eos> at the third of three steps, two tokens returned;
\* C26_WitnessFull: no <eos>, num_steps tokens returned.
C26_Witness ==
    /\ pc = "done" /\ num_steps = 3 /\ Len(decLog) = 3
    /\ decLog[3].pred = eosIdx /\ Len(output_seq) = 2

C26_WitnessFull ==
    /\ pc = "done" /\ num_steps = 2 /\ Len(output_seq) = 2
    /\ decLog[2].pred # eosIdx

\* the draw call that returned last
LastDraw == drawLog[Len(drawLog)]

\* C23: after every draw call, the raw buffer of the label of the call holds
\* fewer points than the every_n of the call.
C23_BufferBelowEveryN ==
    drawLog # <<>> => Len(raw_points[LastDraw.label]) < LastDraw.every_n

\* C23, where it does hold: every call of the label passed the same every_n.
C23_HoldsForOneEveryN ==
    (/\ drawLog # <<>>
     /\ \A i \in DOMAIN drawLog :
           drawLog[i].label = LastDraw.label
               => drawLog[i].every_n = LastDraw.every_n)
        => Len(raw_points[LastDraw.label]) < LastDraw.every_n

C23_WitnessOvershoot ==
    /\ Len(drawLog) = 2
    /\ drawLog[1].label = "train" /\ drawLog[1].every_n = 3
    /\ drawLog[2].label = "train" /\ drawLog[2].every_n = 1
    /\ Len(raw_points["train"]) = 2 /\ pb_data["train"] = <<>>

\* s is t, or t with one element appended
GrowsByAppend(s, t) ==
    /\ Len(t) \in {Len(s), Len(s) + 1}
    /\ \A i \in DOMAIN s : t[i] = s[i]

\* C24: a draw call for one label leaves the raw buffer and the series of
\* every other label as they were; the series of its own label keeps every
\* point it had and gets one more exactly when the buffer reached every_n,
\* with display on or off.
C24_OtherLabelsUntouched ==
    [][LET c == drawLog'[Len(drawLog')]
           had == c.label \in DOMAIN raw_points
           buf == IF had THEN raw_points[c.label] ELSE <<>>
           ser == IF had THEN pb_data[c.label] ELSE <<>>
       IN  /\ Len(drawLog') = Len(drawLog) + 1
           /\ \A lb \in DOMAIN raw_points \ {c.label} :
                 /\ lb \in DOMAIN raw_points' /\ lb \in DOMAIN pb_data'
                 /\ raw_points'[lb] = raw_points[lb]
                 /\ pb_data'[lb] = pb_data[lb]
           /\ DOMAIN raw_points' = DOMAIN raw_points \cup {c.label}
           /\ DOMAIN pb_data' = DOMAIN raw_points'
           /\ GrowsByAppend(ser, pb_data'[c.label])
           /\ Len(pb_data'[c.label]) = Len(ser) + 1
                 <=> Len(buf) + 1 = c.every_n
           /\ display' = display]_vars

\* C24 witness: display is off, "val" has a buffered point and a plotted
\* one, and "train" has been plotted twice around them.
C24_Witness ==
    /\ ~display /\ Len(drawLog) = 4
    /\ drawLog[1].label = "train" /\ drawLog[2].label = "val"
    /\ drawLog[3].label = "val" /\ drawLog[4].label = "train"
    /\ drawLog[2].every_n = 1 /\ drawLog[3].every_n = 2
    /\ Len(pb_data["train"]) = 2 /\ Len(pb_data["val"]) = 1
    /\ Len(raw_points["val"]) = 1 /\ shown = <<>>

\* C25: every element MyInit returns is the drawn value where that has
\* absolute value at least 5, and 0 elsewhere, so it is 0 or has absolute
\* value in [5, 10]; the tensor returned has the shape asked for.
C25_ZeroOrFiveToTen ==
    (pc = "done" /\ init_ret # <<>>) =>
        /\ init_ret.shape = init_shape
        /\ DOMAIN init_ret.v = 1..NumElements(init_shape)
        /\ \A i \in DOMAIN init_ret.v :
              LET d == init_data.v[i]
                  w == init_ret.v[i]
              IN  /\ d >= (-10) * Grid /\ d < 10 * Grid
                  /\ Abs(d) >= 5 * Grid => w = d
                  /\ Abs(d) < 5 * Grid => w = 0
                  /\ w = 0 \/ (Abs(w) >= 5 * Grid /\ Abs(w) <= 10 * Grid)

\* C25 witness: a 1 x 2 tensor drawn as (-5, just below 5) came back as
\* (-5, 0).
C25_Witness ==
    /\ pc = "done" /\ init_shape = <<1, 2>>
    /\ init_data.v = <<(-5) * Grid, 5 * Grid - 1>>
    /\ init_ret.v = <<(-5) * Grid, 0>>
    /\ init_ret.shape = <<1, 2>>

\* the indices of <pad> and <eos> that build_array_nmt looks up
nmtPad == VocabGet(src_idx_to_token, PAD)
nmtEos == VocabGet(src_idx_to_token, EOS)

\* the index sequence of line r, before <eos> is appended
LineIdx(r) == VocabGetAll(src_idx_to_token, lines[r])

HasIdx(s, idx) == \E j \in DOMAIN s : s[j] = idx

\* valid_len = min(L + 1, num_steps), and a line of num_steps tokens or
\* more leaves its first num_steps tokens as the row
RowOfLine(r) ==
    LET L == Len(lines[r])
    IN  /\ valid_len[r] = Min(L + 1, num_steps)
        /\ L >= num_steps => array[r] = SubSeq(LineIdx(r), 1, num_steps)
        /\ L < num_steps =>
              /\ SubSeq(array[r], 1, L) = LineIdx(r)
              /\ array[r][L + 1] = nmtEos

\* C27 as stated: for a line of L tokens none of which maps to <pad>,
\* valid_len is min(L + 1, num_steps), the row holds the <eos> index
\* exactly when L < num_steps, and for L >= num_steps the row is the first
\* num_steps tokens of the line.
C27_EosIffShorter ==
    pc = "done" =>
        \A r \in DOMAIN lines :
            ~HasIdx(LineIdx(r), nmtPad) =>
                /\ RowOfLine(r)
                /\ HasIdx(array[r], nmtEos) <=> Len(lines[r]) < num_steps

\* C27 amended: the same, the <eos> index being in the row exactly when
\* L < num_steps for lines none of whose tokens maps to <eos> either.
C27_EosIffShorterNoEosInLine ==
    pc = "done" =>
        \A r \in DOMAIN lines :
            ~HasIdx(LineIdx(r), nmtPad) =>
                /\ RowOfLine(r)
                /\ ~HasIdx(LineIdx(r), nmtEos) =>
                      (HasIdx(array[r], nmtEos) <=> Len(lines[r]) < num_steps)

\* C27 witness: with num_steps = 2, the line (a) became (a, <eos>) and the
\* line (a, q, a) lost its <eos> and its last token.
C27_Witness ==
    /\ pc = "done" /\ num_steps = 2
    /\ lines = << << <<"a">> >>, << <<"a">>, <<"q">>, <<"a">> >> >>
    /\ array = << <<4, 1>>, <<4, 3>> >>
    /\ valid_len = <<2, 2>>

\* a line holding the token <eos>, cut before the appended <eos>
C27_WitnessEosInLine ==
    /\ pc = "done" /\ num_steps = 1
    /\ lines = << <<EOS, <<"a">> >> >>
    /\ array = << <<1>> >> /\ valid_len = <<1>>

\* the number of tabs of a line: it has two tab-separated parts when 1
Tabs(ln) == Cardinality({j \in DOMAIN ln : ln[j] = "\t"})

\* the lines of the text, and how many of them num_examples lets through
TextLines == SplitOn(text, "\n")
Examinable ==
    IF num_examples \in {{}, {0}} THEN Len(TextLines)
    ELSE LET k == CHOOSE v \in num_examples : TRUE
         IN  Min(Len(TextLines), k + 1)

\* C28: source and target have one length; the lines examined are those of
\* index 0..n for num_examples = n > 0 and all lines for None and 0; the
\* pairs are those of the examined lines with exactly one tab, in order,
\* at most n + 1 of them.
C28_PairsOfExaminedLines ==
    pc = "done" =>
        LET two == SelectSeq(SubSeq(TextLines, 1, Examinable),
                             LAMBDA ln : Tabs(ln) = 1)
        IN  /\ Len(nmt_source) = Len(nmt_target)
            /\ examined = [k \in 1..Examinable |-> k - 1]
            /\ Len(nmt_source) = Len(two)
            /\ \A k \in DOMAIN two :
                  Join(" ", nmt_source[k]) \o <<"\t">>
                      \o Join(" ", nmt_target[k]) = two[k]
            /\ \A v \in num_examples : v > 0 => Len(nmt_source) <= v + 1

\* C28 witness: three lines with a tab each and num_examples = 1: lines 0
\* and 1 were examined and gave two pairs; C28_WitnessAll: num_examples = 0
\* and a line without tab between two with one.
C28_Witness ==
    /\ pc = "done" /\ num_examples = {1}
    /\ text = <<"\t", "\n", "a", "\t", "\n">>
    /\ examined = <<0, 1>>
    /\ nmt_source = << << <<>> >>, << <<"a">> >> >>
    /\ nmt_target = << << <<>> >>, << <<>> >> >>

C28_WitnessAll ==
    /\ pc = "done" /\ num_examples = {0}
    /\ text = <<"\t", "\n", "\n", "\t", "a">>
    /\ examined = <<0, 1, 2>> /\ Len(nmt_source) = 2

\* the sum of slot k of the arguments of the metric.add calls of epoch e
AddedIn(e, k) ==
    LET a == SelectSeq(trainLog, LAMBDA ev : ev.op = "add" /\ ev.epoch = e)
    IN  SumSeq([j \in DOMAIN a |-> a[j].val[2][k]])

\* train_seq2seq has returned or raised
TrainOver == ~ENABLED TrainNext

\* C29: inside an epoch the accumulator holds the sums of that epoch alone,
\* and the final print reads the accumulator and the timer of the last
\* epoch; with num_epochs = 0 the run makes no optimizer step and ends by
\* raising on the unbound accumulator, with no batches it makes no
\* optimizer step and ends by raising on a division by a token count of 0;
\* a run that raised has printed nothing.
C29_LastEpochOnly ==
    /\ pc \in {"batch", "forward", "gradient", "clip", "step", "add",
                "epoch_end"} =>
          /\ metric = <<AddedIn(epoch, 1), AddedIn(epoch, 2)>>
          /\ timer = <<"Timer", epoch>>
    /\ pc = "done" =>
          /\ num_epochs > 0
          /\ report = <<AddedIn(num_epochs - 1, 1),
                        AddedIn(num_epochs - 1, 2),
                        <<"Timer", num_epochs - 1>> >>
    /\ (num_epochs = 0 \/ data_iter = <<>>) =>
          /\ net_version = 0 /\ trainLog = <<>> /\ pc # "done"
          /\ TrainOver => pc = "raised"
    /\ pc = "raised" =>
          /\ TrainOver /\ report = NoneVal
          /\ IF num_epochs = 0 THEN metric = NoneVal
             ELSE metric # NoneVal /\ metric[2] = 0
    /\ TrainOver => pc \in {"done", "raised"}

\* C29 witness: two epochs over one batch: the print read the sums of the
\* second epoch, half of what was added in all; C29_WitnessNoEpochs: no
\* epoch, batches given, raised with nothing bound; C29_WitnessNoBatches:
\* two epochs over no batches, raised at the print with 0 tokens.
C29_Witness ==
    /\ pc = "done" /\ num_epochs = 2 /\ Len(data_iter) = 1
    /\ Len(trainLog) = 10 /\ net_version = 2
    /\ report[2] = AddedIn(1, 2) /\ report[2] > 0
    /\ AddedIn(0, 2) + AddedIn(1, 2) = 2 * report[2]
    /\ report[3] = <<"Timer", 1>>

C29_WitnessNoEpochs ==
    /\ pc = "raised" /\ num_epochs = 0 /\ Len(data_iter) = 2
    /\ metric = NoneVal /\ timer = NoneVal /\ net_version = 0

C29_WitnessNoBatches ==
    /\ pc = "raised" /\ num_epochs = 2 /\ data_iter = <<>> /\ epoch = 2
    /\ metric = <<0, 0>> /\ net_version = 0 /\ report = NoneVal

\* C30: f(a) returns for every finite a other than 0; every pass of its
\* loop doubles b and is made with norm(b) < 1000, the loop is left with
\* norm(b) >= 1000, and the c returned has norm(c) >= 1000 and is b for
\* b > 0 and 100 * b otherwise; for a = 0, b stays 0 and the loop is never
\* left.
C30_ReturnsUnlessZero ==
    /\ (fn_a # 0) ~> (pc = "done")
    /\ [][/\ (pc = "start" /\ pc' = "while") =>
               fn_b' = Overflow(2 * fn_a)
          /\ (pc = "while" /\ pc' = "while") =>
               /\ Norm(fn_b) < 1000 * Grid
               /\ fn_b' = Overflow(2 * fn_b)
          /\ (pc = "while" /\ pc' = "if") =>
               /\ Norm(fn_b) >= 1000 * Grid /\ fn_b' = fn_b
               /\ fn_a # 0]_vars
    /\ [](pc = "done" =>
             /\ Norm(fn_c) >= 1000 * Grid
             /\ fn_c = IF fn_b > 0 THEN fn_b ELSE Overflow(100 * fn_b))
    /\ [](fn_a = 0 => fn_b = 0 /\ pc \in {"start", "while"})

\* C30 witness: a = -1/Grid was doubled until -1024 and came back as
\* -102400; C30_WitnessZero: a = 0 is in the loop with b = 0;
\* C30_WitnessOverflow: the largest a gave an infinite b and c.
C30_Witness ==
    /\ pc = "done" /\ fn_a = -1
    /\ fn_b = -(1024 * Grid) /\ fn_c = -(102400 * Grid)

C30_WitnessZero == pc = "while" /\ fn_a = 0 /\ fn_b = 0

C30_WitnessOverflow ==
    pc = "done" /\ fn_a = FloatMax /\ fn_b = Inf /\ fn_c = Inf

=============================================================================
